---- MODULE Spec2Model ----
(***************************************************************************)
(* Session, configuration and workflow layer of the control-plane tool     *)
(* server: ClientUtils (utils/client_utils.py) and the tools built on it   *)
(* (tools/project_tools.py, tools/env_tools.py, tools/env_override_tool.py,*)
(* tools/configure_resource_tool.py).                                      *)
(*                                                                         *)
(* Every tool invocation runs to completion before the next one starts, so *)
(* each tool is one action.  The remote control plane is part of the       *)
(* state; every remote call an invocation makes is appended to `calls`,    *)
(* which is reset at the start of each invocation, and may fail.           *)
(***************************************************************************)
EXTENDS Integers, Sequences, FiniteSets, TLC

VARIABLES
    environ,          \* os.environ: FACETS_PROFILE, CONTROL_PLANE_URL, FACETS_USERNAME, FACETS_TOKEN
    credentials,      \* ~/.facets/credentials: the sections of the INI file
    client_config,    \* ClientUtils.cp_url / username / token
    initialized,      \* ClientUtils.initialized
    current_project,  \* ClientUtils._current_project
    current_cluster,  \* the session store's current environment
    stacks,           \* remote: the variable mapping of every project
    clusters,         \* remote: the environments (clusters) and their metadata
    overrides,        \* remote: the overrides document of the resource in each environment
    module_inputs,    \* remote: the inputs the module of the resource type and flavor declares
    resources,        \* remote: the resource of each project, as last created
    caller_properties,\* the DeploymentRequestModel the caller passes to deployment tools
    tool,             \* name of the last operation invoked
    args,             \* its arguments
    calls,            \* the remote calls it made, in order
    outcome,          \* how it ended
    server,           \* the process: starting, serving tools, or exited
    invocations       \* the use_project invocations that overlap, and the last to write

vars == <<environ, credentials, client_config, initialized, current_project,
          current_cluster, stacks, clusters, overrides, module_inputs, resources,
          caller_properties, tool, args, calls, outcome, server, invocations>>

\* Python's None, for values modelled as strings.
None == "None"

-----------------------------------------------------------------------------
(* Bounds of the model.                                                    *)

\* The remote platform holds the environments with ids 1..MaxClusterId.
MaxClusterId == 3
\* The platform lists at most MaxReleases deployments for an environment.
MaxReleases == 2

-----------------------------------------------------------------------------
(* Outcomes, arguments and remote calls of an invocation.                  *)

\* A JSON object is the set of its leaves, each the path of keys that leads
\* to it and its value; the value "{}" is an empty object, and the object
\* with no leaves is the empty object itself.
EmptyDocument == {}
\* The overrides of a call that carries none, and JSON null.
NoDocument == {[path |-> <<>>, value |-> "-"]}
NullDocument == {[path |-> <<>>, value |-> "null"]}

\* An invocation returned normally.
Ok == [status |-> "ok", etype |-> None, text |-> None, tag |-> None, names |-> {},
       returned |-> None, document |-> NoDocument]

\* An invocation returned the value v.
Returned(v) == [Ok EXCEPT !.returned = v]

\* An invocation raised `etype` with a message made of `text`, an optional
\* release-type `tag` and the variable `names` it lists.
Err(etype, text, tag, names) ==
    [status |-> "error", etype |-> etype, text |-> text, tag |-> tag, names |-> names,
     returned |-> None, document |-> NoDocument]

NoProperties ==
    [release_type |-> "-", force_release |-> "-", allow_destroy |-> "-",
     with_refresh |-> "-", hotfix_resources |-> "-",
     override_build_steps |-> "-", lock_id |-> "-"]

\* The inputs argument of add_resource: None when not given, else the
\* entries of the mapping.
NoInputs == [given |-> FALSE, entries |-> {}]

\* The ResourceFileRequest of a call that carries none.
NoResourceRequest ==
    [resource_name |-> "-", resource_type |-> "-", flavor |-> "-", version |-> "-",
     content |-> "-", inputs |-> NoInputs, directory |-> "-", filename |-> "-",
     branch |-> "-"]

\* The arguments of an operation that takes none; operations override the
\* fields they take.
NoArgs ==
    [project_name |-> "-", environment_name |-> "-", properties |-> NoProperties,
     variables |-> {}, value |-> "-", flavor |-> "-", version |-> "-",
     content |-> "-", inputs |-> NoInputs, property_path |-> <<"-">>,
     override_data |-> NoDocument, instance |-> "-"]

NoRequest ==
    [release_type |-> "-", force_release |-> "-", allow_destroy |-> "-",
     with_refresh |-> "-", hotfix_resources |-> "-",
     override_build_steps |-> "-", lock_id |-> "-"]

\* One remote call: the generated client's method, the entity it addresses,
\* the deployment request it carries (if any) and whether it succeeded.
Call(api, target, body, ok) ==
    [api |-> api, target |-> target, cluster |-> 0, body |-> body,
     overrides |-> NoDocument, resource |-> NoResourceRequest, ok |-> ok]

\* A remote call that addresses an environment by its id.
ClusterCall(api, id, body, ok) ==
    [api |-> api, target |-> "-", cluster |-> id, body |-> body,
     overrides |-> NoDocument, resource |-> NoResourceRequest, ok |-> ok]

\* A remote call of the blueprint designer for project `target`, carrying
\* the ResourceFileRequest `request` (if any).
ResourceCall(api, target, request, ok) ==
    [api |-> api, target |-> target, cluster |-> 0, body |-> NoRequest,
     overrides |-> NoDocument, resource |-> request, ok |-> ok]

\* A remote call that reads or posts the overrides of the resource in
\* environment `id`.
OverrideCall(api, id, document, ok) ==
    [api |-> api, target |-> "-", cluster |-> id,
     body |-> NoRequest,
     overrides |-> document, resource |-> NoResourceRequest, ok |-> ok]

-----------------------------------------------------------------------------
(* Configuration resolution: ClientUtils.initialize / get_client.          *)

ConfigKeys == {"cp_url", "username", "token"}

EnvVarOf(k) ==
    CASE k = "cp_url"   -> "CONTROL_PLANE_URL"
      [] k = "username" -> "FACETS_USERNAME"
      [] k = "token"    -> "FACETS_TOKEN"

\* The key of the credentials file that holds field k.
FileKeyOf(k) ==
    CASE k = "cp_url"   -> "control_plane_url"
      [] k = "username" -> "username"
      [] k = "token"    -> "token"

EnvVars == {"FACETS_PROFILE", "CONTROL_PLANE_URL", "FACETS_USERNAME", "FACETS_TOKEN"}
FileKeys == {"control_plane_url", "username", "token"}

\* A key missing from a section of the credentials file.
NoKey == "<no key>"
\* The credentials file has no section for the profile.
NoSection == [k \in FileKeys |-> "<no section>"]

ProfileNames == {"", "default"}
EnvValues(v) == {"", "env-" \o v}
FileValues(k) == {NoKey, "", "file-" \o k}

\* class attributes cp_url = None, username = None, token = None
NoConfig == [k \in ConfigKeys |-> None]

\* os.getenv(name, "")
getenv(name) == environ[name]

\* config.has_section(profile)
has_section(profile) == credentials[profile] # NoSection

\* config.get(profile, key, fallback=fallback)
config_get_mutant_env_first(profile, key, fallback) ==
    IF fallback # "" \/ credentials[profile][key] = NoKey
    THEN fallback ELSE credentials[profile][key]

config_get(profile, key, fallback) ==
    IF credentials[profile][key] = NoKey THEN fallback ELSE credentials[profile][key]

\* The values initialize() holds after the profile merge (lines 53-66);
\* meaningful when the profile's section exists or no merge is needed.
NeedsProfile ==
    /\ getenv("FACETS_PROFILE") # ""
    /\ \E k \in ConfigKeys : getenv(EnvVarOf(k)) = ""

Merged ==
    [k \in ConfigKeys |->
        IF NeedsProfile
        THEN config_get(getenv("FACETS_PROFILE"), FileKeyOf(k), getenv(EnvVarOf(k)))
        ELSE getenv(EnvVarOf(k))]

\* The final check of initialize(): not (cp_url and username and token)
Incomplete_mutant_url_only(m) == m["cp_url"] = ""

Incomplete(m) == \E k \in ConfigKeys : m[k] = ""

\* ClientUtils.initialize(): the outcome and the client configuration it leaves.
InitializeOutcome ==
    IF NeedsProfile /\ ~has_section(getenv("FACETS_PROFILE"))
    THEN Err("ValueError", "Profile not found in credentials file", None, {})
    ELSE IF Incomplete(Merged)
    THEN Err("ValueError", "Control plane URL, username, and token are required", None, {})
    ELSE Ok

\* ClientUtils.get_mcp_instance(): initialize once, then keep the instance.
get_mcp_instance ==
    /\ tool' = "get_mcp_instance"
    /\ args' = NoArgs
    /\ calls' = <<>>
    /\ IF initialized
       THEN /\ outcome' = Ok
            /\ UNCHANGED <<client_config, initialized>>
       ELSE /\ outcome' = InitializeOutcome
            /\ IF InitializeOutcome = Ok
               THEN /\ client_config' = Merged     \* set_client_config
                    /\ initialized' = TRUE
               ELSE UNCHANGED <<client_config, initialized>>
    /\ UNCHANGED <<environ, credentials, current_project, current_cluster, stacks, clusters,
                   overrides, module_inputs, resources, caller_properties, server,
                   invocations>>

\* The guard of ClientUtils.get_client().
ClientConfigured == \A k \in ConfigKeys : client_config[k] # None

\* ClientUtils.get_client(): a fresh client handle, or ValueError.
get_client ==
    /\ tool' = "get_client"
    /\ args' = NoArgs
    /\ calls' = <<>>
    /\ outcome' = IF ClientConfigured
                  THEN Ok
                  ELSE Err("ValueError", "Client configuration not set", None, {})
    /\ UNCHANGED <<environ, credentials, client_config, initialized,
                   current_project, current_cluster, stacks, clusters, overrides,
                   module_inputs, resources, caller_properties, server, invocations>>

\* The process has not reached mcp.run() yet, serves tools, or has exited
\* with status 1.
Starting == "starting"
Serving == "mcp.run(transport=stdio)"
Exited1 == "exit(1)"

test_login_mutant_always(configured, up) == TRUE

\* _test_login(): True when get_client() and the me() call both succeed,
\* False on any exception.
test_login(configured, up) == configured /\ up

\* main(): get the server instance, test the login, then run or exit.  An
\* exception of initialize() is not caught and ends the process with
\* status 1 as well.
main ==
    /\ server = Starting
    /\ tool' = "main"
    /\ args' = NoArgs
    /\ IF ~initialized /\ InitializeOutcome # Ok
       THEN /\ calls' = <<>>
            /\ outcome' = InitializeOutcome
            /\ server' = Exited1
            /\ UNCHANGED <<client_config, initialized>>
       ELSE \E up \in BOOLEAN :
            LET config == IF initialized THEN client_config ELSE Merged
                configured == \A k \in ConfigKeys : config[k] # None
            IN /\ client_config' = config
               /\ initialized' = TRUE
               /\ calls' = IF configured
                           THEN <<Call("me", "-", NoRequest, up)>>
                           ELSE <<>>
               /\ IF test_login(configured, up)
                  THEN /\ server' = Serving
                       /\ outcome' = Ok
                  ELSE /\ server' = Exited1
                       /\ outcome' = Err("SystemExit", "1", None, {})
    /\ UNCHANGED <<environ, credentials, current_project, current_cluster, stacks, clusters,
                   overrides, module_inputs, resources, caller_properties, invocations>>

-----------------------------------------------------------------------------
(* The remote control plane.                                               *)

\* The projects (stacks) the platform knows.
Projects == {"shop", "blog"}
\* Project names a caller may pass; "ghost" is unknown to the platform.
ProjectNames == Projects \cup {"ghost"}

VarNames == {"DB_HOST", "API_KEY"}
VarValues == {"v1", "v2"}
\* A variable name with no entry in a variable mapping.
Absent == "absent"

ClusterIds == 1..MaxClusterId
\* Odd ids belong to "shop", even ids to "blog"; both projects have a "prod".
ClusterProject(id) == IF id % 2 = 1 THEN "shop" ELSE "blog"
ClusterName(id) == IF id <= 2 THEN "prod" ELSE "dev"
EnvironmentNames == {"prod", "dev", "qa"}
ClusterStates == {"RUNNING", "STOPPED"}

\* The platform holds no overrides for any environment.
NoOverrides == [id \in ClusterIds |-> EmptyDocument]

\* Session store: nothing selected.
NoProject == [name |-> None, cluster_variables_meta |-> [n \in VarNames |-> Absent]]
NoCluster == [id |-> 0, name |-> None, cluster_state |-> None]

\* GET stack: the Stack the platform returns for project p.
Stack(p) == [name |-> p, cluster_variables_meta |-> stacks[p]]

\* GET clusters of a stack: the AbstractCluster list, in id order.  The
\* listing carries no lifecycle state; the metadata call does.
AbstractCluster(id) == [id |-> id, name |-> ClusterName(id), cluster_state |-> None]

ListedIds(p) == {id \in ClusterIds : clusters[id].listed /\ ClusterProject(id) = p}

-----------------------------------------------------------------------------
(* Session store: ClientUtils.                                             *)

\* ClientUtils.set_current_project(project): the new value of the slot.
set_current_project_mutant_drop(project) == current_project

set_current_project(project) == project

\* ClientUtils.get_current_project()
get_current_project == current_project

\* `if not project` on a Stack or None
IsSet(project) == project # NoProject

\* ClientUtils.set_current_cluster(cluster): the new value of the slot.
set_current_cluster(cluster) == cluster

\* ClientUtils.get_current_cluster()
get_current_cluster == current_cluster

\* ClientUtils.is_current_cluster_and_project_set(): both must be non-empty.
is_current_cluster_and_project_set ==
    current_project # NoProject /\ current_cluster # NoCluster

\* What every tool leaves alone: the process configuration (and what the
\* caller is about to pass).
ConfigUnchanged ==
    UNCHANGED <<environ, credentials, client_config, initialized, caller_properties,
                server, invocations>>

-----------------------------------------------------------------------------
(* tools/project_tools.py                                                  *)

\* The platform answers GET stack for a known project unless the call fails.
StackFetched(name, up) == up /\ name \in Projects

\* get_all_projects(): the names of the platform's projects; a failure of
\* the remote call is not caught.
get_all_projects ==
    /\ ClientConfigured
    /\ tool' = "get_all_projects"
    /\ args' = NoArgs
    /\ \E up \in BOOLEAN :
        /\ calls' = <<Call("get_stacks_using_get1", "-", NoRequest, up)>>
        /\ outcome' = IF up THEN Returned(Projects)
                      ELSE Err("ApiException", "remote call failed", None, {})
    /\ UNCHANGED <<current_project, current_cluster, stacks, clusters, overrides,
                   module_inputs, resources>>
    /\ ConfigUnchanged

use_project_mutant_clear_on_failure(project_name) ==
    /\ ClientConfigured
    /\ tool' = "use_project"
    /\ args' = [NoArgs EXCEPT !.project_name = project_name]
    /\ \E up \in BOOLEAN :
        LET fetched == StackFetched(project_name, up) IN
        /\ calls' = <<Call("get_stack_using_get", project_name, NoRequest, fetched)>>
        /\ IF fetched
           THEN /\ current_project' = set_current_project(Stack(project_name))
                /\ outcome' = Ok
           ELSE /\ outcome' = Err("ValueError", "Failed to set project", None, {})
                /\ current_project' = NoProject
    /\ UNCHANGED <<current_cluster, stacks, clusters, overrides, module_inputs,
                   resources>>
    /\ ConfigUnchanged

\* use_project(project_name)
use_project(project_name) ==
    /\ ClientConfigured
    /\ tool' = "use_project"
    /\ args' = [NoArgs EXCEPT !.project_name = project_name]
    /\ \E up \in BOOLEAN :
        LET fetched == StackFetched(project_name, up) IN
        /\ calls' = <<Call("get_stack_using_get", project_name, NoRequest, fetched)>>
        /\ IF fetched
           THEN /\ current_project' = set_current_project(Stack(project_name))
                /\ outcome' = Ok
           ELSE /\ outcome' = Err("ValueError", "Failed to set project", None, {})
                /\ UNCHANGED current_project
    /\ UNCHANGED <<current_cluster, stacks, clusters, overrides, module_inputs,
                   resources>>
    /\ ConfigUnchanged

\* Two invocations of use_project that overlap: each is at the start, has
\* its remote fetch behind it and holds the Stack it got, or has ended.
Threads == {1, 2}

NoneInFlight ==
    [thread |-> [t \in Threads |-> [pc |-> "idle", project_name |-> "-", project |-> NoProject]],
     last_write |-> 0]

\* use_project, up to and including api_instance.get_stack_using_get: the
\* fetch of invocation t answers or fails; a failure ends the invocation.
use_project_fetch(t, project_name) ==
    /\ ClientConfigured
    /\ invocations.thread[t].pc = "idle"
    /\ \A other \in Threads \ {t} : invocations.thread[other].project_name # project_name
    /\ tool' = "use_project"
    /\ args' = [NoArgs EXCEPT !.project_name = project_name]
    /\ \E up \in BOOLEAN :
        LET fetched == StackFetched(project_name, up) IN
        /\ calls' = Append(calls, Call("get_stack_using_get", project_name, NoRequest, fetched))
        /\ invocations' = [invocations EXCEPT !.thread[t] =
                              [pc |-> IF fetched THEN "fetched" ELSE "failed",
                               project_name |-> project_name,
                               project |-> IF fetched THEN Stack(project_name) ELSE NoProject]]
        /\ outcome' = IF fetched THEN outcome
                      ELSE Err("ValueError", "Failed to set project", None, {})
    /\ UNCHANGED <<environ, credentials, client_config, initialized, caller_properties,
                   server, current_project, current_cluster, stacks, clusters, overrides,
                   module_inputs, resources>>

\* use_project, from ClientUtils.set_current_project(project) on: one
\* assignment to the class attribute, then the return.
use_project_write(t) ==
    /\ invocations.thread[t].pc = "fetched"
    /\ current_project' = set_current_project(invocations.thread[t].project)
    /\ invocations' = [invocations EXCEPT !.thread[t].pc = "done", !.last_write = t]
    /\ outcome' = Ok
    /\ UNCHANGED <<environ, credentials, client_config, initialized, caller_properties,
                   server, current_cluster, stacks, clusters, overrides, module_inputs,
                   resources, tool, args, calls>>

Refreshed_mutant_keep_cache(before, srv, up) ==
    IF ~IsSet(get_current_project)
    THEN [calls |-> before, project |-> current_project,
          outcome |-> Err("ValueError", "No current project is set", None, {})]
    ELSE LET name == get_current_project.name
             fetched == StackFetched(name, up)
         IN [calls |-> Append(before, Call("get_stack_using_get", name, NoRequest, fetched)),
             project |-> current_project,
             outcome |-> IF fetched THEN Ok
                         ELSE Err("ApiException", "remote call failed", None, {})]

Refreshed_mutant_fetch_first(before, srv, up) ==
    LET name == get_current_project.name
        fetched == StackFetched(name, up)
    IN [calls |-> Append(before, Call("get_stack_using_get", name, NoRequest, fetched)),
        project |-> IF fetched /\ IsSet(get_current_project)
                    THEN set_current_project([name |-> name, cluster_variables_meta |-> srv[name]])
                    ELSE current_project,
        outcome |-> IF ~IsSet(get_current_project)
                    THEN Err("ValueError", "No current project is set", None, {})
                    ELSE IF fetched THEN Ok
                    ELSE Err("ApiException", "remote call failed", None, {})]

\* The body of refresh_current_project() when run after `before` calls on the
\* platform state `srv`: the calls, the cached project and the outcome.
Refreshed(before, srv, up) ==
    IF ~IsSet(get_current_project)
    THEN [calls |-> before, project |-> current_project,
          outcome |-> Err("ValueError", "No current project is set", None, {})]
    ELSE LET name == get_current_project.name
             fetched == StackFetched(name, up)
         IN [calls |-> Append(before, Call("get_stack_using_get", name, NoRequest, fetched)),
             project |-> IF fetched
                         THEN set_current_project([name |-> name, cluster_variables_meta |-> srv[name]])
                         ELSE current_project,
             outcome |-> IF fetched THEN Ok
                         ELSE Err("ApiException", "remote call failed", None, {})]

\* refresh_current_project()
refresh_current_project ==
    /\ ClientConfigured
    /\ tool' = "refresh_current_project"
    /\ args' = NoArgs
    /\ \E up \in BOOLEAN :
        LET r == Refreshed(<<>>, stacks, up) IN
        /\ calls' = r.calls
        /\ current_project' = r.project
        /\ outcome' = r.outcome
    /\ UNCHANGED <<current_cluster, stacks, clusters, overrides, module_inputs,
                   resources>>
    /\ ConfigUnchanged

\* get_secrets_and_vars(): the cached variable mapping.
get_secrets_and_vars ==
    /\ ClientConfigured
    /\ tool' = "get_secrets_and_vars"
    /\ args' = NoArgs
    /\ calls' = <<>>
    /\ outcome' = IF IsSet(get_current_project) THEN Ok
                  ELSE Err("ValueError", "No current project is set", None, {})
    /\ UNCHANGED <<current_project, current_cluster, stacks, clusters, overrides, module_inputs,
                   resources>>
    /\ ConfigUnchanged

\* `name in current_vars`, current_vars being the cached mapping.
InCurrentVars_mutant_server(name) ==
    stacks[get_current_project.name][name] # Absent

InCurrentVars(name) == get_current_project.cluster_variables_meta[name] # Absent

\* existing_vars / missing_vars: the requested names that fail the check.
existing_vars(names) == {n \in names : InCurrentVars(n)}
missing_vars(names) == {n \in names : ~InCurrentVars(n)}

\* The platform's variable mapping after each mutation.
AddVariables(p, names, v) ==
    [stacks EXCEPT ![p] = [n \in VarNames |-> IF n \in names THEN v ELSE @[n]]]
DeleteVariables(p, names) ==
    [stacks EXCEPT ![p] = [n \in VarNames |-> IF n \in names THEN Absent ELSE @[n]]]

\* The part create_variables, update_variables and delete_variables share:
\* the existence check `offending` on the cached mapping, the mutation call
\* `api` that leaves the platform in `mutated`, then refresh_current_project().
VariableMutation(name, names, v, offending, text, api, mutated) ==
    /\ ClientConfigured
    /\ tool' = name
    /\ args' = [NoArgs EXCEPT !.variables = names, !.value = v]
    /\ UNCHANGED <<current_cluster, clusters, overrides, module_inputs,
                   resources>>
    /\ ConfigUnchanged
    /\ IF ~IsSet(get_current_project)
       THEN /\ calls' = <<>>
            /\ outcome' = Err("ValueError", "No current project is set", None, {})
            /\ UNCHANGED <<current_project, stacks>>
       ELSE IF offending # {}
       THEN /\ calls' = <<>>
            /\ outcome' = Err("ValueError", text, None, offending)
            /\ current_project' = set_current_project(get_current_project)
            /\ UNCHANGED stacks
       ELSE \E up1, up2 \in BOOLEAN :
            LET p == get_current_project.name
                mutation == Call(api, p, NoRequest, up1)
            IN IF ~up1
               THEN /\ calls' = <<mutation>>
                    /\ outcome' = Err("ApiException", "remote call failed", None, {})
                    /\ current_project' = set_current_project(get_current_project)
                    /\ UNCHANGED stacks
               ELSE LET r == Refreshed(<<mutation>>, mutated, up2) IN
                    /\ stacks' = mutated
                    /\ calls' = r.calls
                    /\ current_project' = r.project
                    /\ outcome' = r.outcome

\* create_variables(variables)
create_variables(names, v) ==
    VariableMutation("create_variables", names, v, existing_vars(names),
                     "The following variables already exist",
                     "add_variables_using_post",
                     AddVariables(get_current_project.name, names, v))

\* update_variables(variables)
update_variables(names, v) ==
    VariableMutation("update_variables", names, v, missing_vars(names),
                     "The following variables do not exist",
                     "update_variables_using_put",
                     AddVariables(get_current_project.name, names, v))

\* delete_variables(variable_names)
delete_variables(names) ==
    VariableMutation("delete_variables", names, "-", missing_vars(names),
                     "The following variables do not exist",
                     "delete_variables_using_delete",
                     DeleteVariables(get_current_project.name, names))

-----------------------------------------------------------------------------
(* tools/env_tools.py: environments.                                       *)

\* An exception of the generated client leaves the tool as it was raised.
RemoteFailure == Err("ApiException", "remote call failed", None, {})

NoCurrentProject == Err("McpError", "No current project is set", None, {})
NoCurrentProjectOrEnvironment ==
    Err("McpError", "No current project or environment is set", None, {})

FoundByName_mutant_first_listed(p, name) ==
    IF ListedIds(p) = {} THEN 0
    ELSE CHOOSE id \in ListedIds(p) : \A other \in ListedIds(p) : id <= other

\* The first environment of the listing of project p whose name is `name`
\* (0 if none): the loop of use_environment.
FoundByName(p, name) ==
    LET hits == {id \in ListedIds(p) : ClusterName(id) = name}
    IN IF hits = {} THEN 0 ELSE CHOOSE id \in hits : \A other \in hits : id <= other

\* GET cluster metadata of a stack: one entry for each environment of the
\* project whose lifecycle state the platform knows.
ClusterMetadata(p) ==
    {[cluster_id |-> id, cluster_state |-> clusters[id].meta] :
        id \in {i \in ClusterIds : ClusterProject(i) = p /\ clusters[i].meta # None}}

MergedState_mutant_any_entry(env) ==
    LET cluster_metadata == ClusterMetadata(ClusterProject(env.id))
    IN IF cluster_metadata # {}
       THEN (CHOOSE metadata \in cluster_metadata :
                \A other \in cluster_metadata :
                    metadata.cluster_id <= other.cluster_id).cluster_state
       ELSE env.cluster_state

\* The cluster_state of the metadata entry whose cluster_id is the id of
\* `env`, or the listing's own value when the metadata list has no such entry.
MergedState(env) ==
    LET cluster_metadata == ClusterMetadata(ClusterProject(env.id))
        matching == {metadata \in cluster_metadata : metadata.cluster_id = env.id}
    IN IF matching # {}
       THEN (CHOOSE metadata \in matching : TRUE).cluster_state
       ELSE env.cluster_state

\* _convert_swagger_environment_to_pydantic: a None string field becomes "".
ConvertEnvironment(env) ==
    [id |-> env.id, name |-> env.name,
     cluster_state |-> IF env.cluster_state = None THEN "" ELSE env.cluster_state]

\* get_all_environments()
get_all_environments ==
    /\ ClientConfigured
    /\ tool' = "get_all_environments"
    /\ args' = NoArgs
    /\ IF ~IsSet(get_current_project)
       THEN /\ calls' = <<>>
            /\ outcome' = NoCurrentProject
       ELSE \E up \in BOOLEAN :
            /\ calls' = <<Call("get_clusters_using_get1", get_current_project.name, NoRequest, up)>>
            /\ outcome' = IF up
                          THEN Returned({ConvertEnvironment(AbstractCluster(id)) :
                                            id \in ListedIds(get_current_project.name)})
                          ELSE RemoteFailure
    /\ UNCHANGED <<current_project, current_cluster, stacks, clusters, overrides, module_inputs,
                   resources>>
    /\ ConfigUnchanged

\* use_environment(environment_name)
use_environment(environment_name) ==
    /\ ClientConfigured
    /\ tool' = "use_environment"
    /\ args' = [NoArgs EXCEPT !.environment_name = environment_name]
    /\ IF ~IsSet(get_current_project)
       THEN /\ calls' = <<>>
            /\ outcome' = NoCurrentProject
            /\ UNCHANGED current_cluster
       ELSE \E up \in BOOLEAN :
            LET project == get_current_project
                found == FoundByName(project.name, environment_name)
            IN /\ calls' = <<Call("get_clusters_using_get1", project.name, NoRequest, up)>>
               /\ IF ~up
                  THEN /\ outcome' = RemoteFailure
                       /\ UNCHANGED current_cluster
                  ELSE IF found = 0
                  THEN /\ outcome' = Err("McpError", "Environment not found in project", None, {})
                       /\ UNCHANGED current_cluster
                  ELSE /\ current_cluster' = set_current_cluster(AbstractCluster(found))
                       /\ outcome' = Ok
    /\ UNCHANGED <<current_project, stacks, clusters, overrides, module_inputs,
                   resources>>
    /\ ConfigUnchanged

Details_mutant_first_listed(before, up1, up2) ==
    IF ~is_current_cluster_and_project_set
    THEN [calls |-> before, cluster |-> current_cluster,
          outcome |-> NoCurrentProjectOrEnvironment]
    ELSE LET project == get_current_project
             listing == Call("get_clusters_using_get1", project.name, NoRequest, up1)
             metadata == Call("get_cluster_metadata_by_stack_using_get", project.name, NoRequest, up2)
             first == FoundByName_mutant_first_listed(project.name, "-")
         IN IF ~up1
            THEN [calls |-> Append(before, listing), cluster |-> current_cluster,
                  outcome |-> RemoteFailure]
            ELSE IF ~up2
            THEN [calls |-> before \o <<listing, metadata>>, cluster |-> current_cluster,
                  outcome |-> RemoteFailure]
            ELSE IF first = 0
            THEN [calls |-> before \o <<listing, metadata>>, cluster |-> current_cluster,
                  outcome |-> Err("McpError", "Environment no longer exists in project", None, {})]
            ELSE [calls |-> before \o <<listing, metadata>>,
                  cluster |-> set_current_cluster(AbstractCluster(first)),
                  outcome |-> Returned(ConvertEnvironment(AbstractCluster(first)))]

\* The body of get_current_environment_details() when run after `before`
\* calls: the calls, the stored environment and the outcome.
Details(before, up1, up2) ==
    IF ~is_current_cluster_and_project_set
    THEN [calls |-> before, cluster |-> current_cluster,
          outcome |-> NoCurrentProjectOrEnvironment]
    ELSE LET project == get_current_project
             current_environment == get_current_cluster
             listing == Call("get_clusters_using_get1", project.name, NoRequest, up1)
             metadata == Call("get_cluster_metadata_by_stack_using_get", project.name, NoRequest, up2)
             refreshed == [AbstractCluster(current_environment.id) EXCEPT
                              !.cluster_state = MergedState(AbstractCluster(current_environment.id))]
         IN IF ~up1
            THEN [calls |-> Append(before, listing), cluster |-> current_cluster,
                  outcome |-> RemoteFailure]
            ELSE IF ~up2
            THEN [calls |-> before \o <<listing, metadata>>, cluster |-> current_cluster,
                  outcome |-> RemoteFailure]
            ELSE IF current_environment.id \notin ListedIds(project.name)
            THEN [calls |-> before \o <<listing, metadata>>, cluster |-> current_cluster,
                  outcome |-> Err("McpError", "Environment no longer exists in project", None, {})]
            ELSE [calls |-> before \o <<listing, metadata>>,
                  cluster |-> set_current_cluster(refreshed),
                  outcome |-> Returned(ConvertEnvironment(refreshed))]

\* get_current_environment_details()
get_current_environment_details ==
    /\ ClientConfigured
    /\ tool' = "get_current_environment_details"
    /\ args' = NoArgs
    /\ \E up1, up2 \in BOOLEAN :
        LET d == Details(<<>>, up1, up2) IN
        /\ calls' = d.calls
        /\ current_cluster' = d.cluster
        /\ outcome' = d.outcome
    /\ UNCHANGED <<current_project, stacks, clusters, overrides, module_inputs,
                   resources>>
    /\ ConfigUnchanged

\* check_if_environment_is_running()
check_if_environment_is_running ==
    /\ ClientConfigured
    /\ tool' = "check_if_environment_is_running"
    /\ args' = NoArgs
    /\ \E up1, up2 \in BOOLEAN :
        LET d == Details(<<>>, up1, up2) IN
        /\ calls' = d.calls
        /\ current_cluster' = d.cluster
        /\ outcome' = IF d.outcome.status = "ok"
                      THEN Returned(IF d.outcome.returned.cluster_state = "RUNNING"
                                    THEN "True" ELSE "False")
                      ELSE d.outcome
    /\ UNCHANGED <<current_project, stacks, clusters, overrides, module_inputs,
                   resources>>
    /\ ConfigUnchanged

-----------------------------------------------------------------------------
(* tools/env_tools.py: releases of the current environment.                *)

\* What the platform may answer to "list the deployments of an environment":
\* the status of each deployment, oldest first.
ReleaseStatuses == {"RUNNING", "SUCCEEDED"}
DeploymentLists == UNION {[1..n -> ReleaseStatuses] : n \in 0..MaxReleases}

\* The body of get_releases_of_current_environment() when run after `before`
\* calls, the stored environment being `cluster`.
Releases(before, cluster, deployments, up) ==
    IF ~(current_project # NoProject /\ cluster # NoCluster)
    THEN [calls |-> before, outcome |-> NoCurrentProjectOrEnvironment]
    ELSE [calls |-> Append(before, ClusterCall("get_deployments_using_get1", cluster.id, NoRequest, up)),
          outcome |-> IF up THEN Returned(deployments) ELSE RemoteFailure]

\* get_releases_of_current_environment()
get_releases_of_current_environment ==
    /\ ClientConfigured
    /\ tool' = "get_releases_of_current_environment"
    /\ args' = NoArgs
    /\ \E deployments \in DeploymentLists, up \in BOOLEAN :
        LET r == Releases(<<>>, get_current_cluster, deployments, up) IN
        /\ calls' = r.calls
        /\ outcome' = r.outcome
    /\ UNCHANGED <<current_project, current_cluster, stacks, clusters, overrides, module_inputs,
                   resources>>
    /\ ConfigUnchanged

ReleaseQuery_mutant_forgets(name, api) ==
    /\ ClientConfigured
    /\ tool' = name
    /\ args' = NoArgs
    /\ IF ~is_current_cluster_and_project_set
       THEN /\ calls' = <<>>
            /\ outcome' = NoCurrentProjectOrEnvironment
       ELSE \E up \in BOOLEAN :
            /\ calls' = <<ClusterCall(api, get_current_cluster.id, NoRequest, up)>>
            /\ outcome' = IF up THEN Returned("release") ELSE RemoteFailure
    /\ current_cluster' = NoCluster
    /\ UNCHANGED <<current_project, stacks, clusters, overrides, module_inputs,
                   resources>>
    /\ ConfigUnchanged

\* get_release_details(release_id) and
\* get_release_logs_of_current_environment(release_id): the presence check,
\* then one call for the release.
ReleaseQuery(name, api) ==
    /\ ClientConfigured
    /\ tool' = name
    /\ args' = NoArgs
    /\ IF ~is_current_cluster_and_project_set
       THEN /\ calls' = <<>>
            /\ outcome' = NoCurrentProjectOrEnvironment
       ELSE \E up \in BOOLEAN :
            /\ calls' = <<ClusterCall(api, get_current_cluster.id, NoRequest, up)>>
            /\ outcome' = IF up THEN Returned("release") ELSE RemoteFailure
    /\ UNCHANGED <<current_project, current_cluster, stacks, clusters, overrides, module_inputs,
                   resources>>
    /\ ConfigUnchanged

get_release_details == ReleaseQuery("get_release_details", "get_deployment_using_get")

get_release_logs_of_current_environment ==
    ReleaseQuery("get_release_logs_of_current_environment", "get_deployment_logs_using_get")

\* get_latest_release_of_current_environment(): deployments.deployments[-1]
get_latest_release_of_current_environment ==
    /\ ClientConfigured
    /\ tool' = "get_latest_release_of_current_environment"
    /\ args' = NoArgs
    /\ \E deployments \in DeploymentLists, up \in BOOLEAN :
        LET r == Releases(<<>>, get_current_cluster, deployments, up) IN
        /\ calls' = r.calls
        /\ outcome' = IF r.outcome.status # "ok" THEN r.outcome
                      ELSE IF deployments = <<>>
                      THEN Err("IndexError", "list index out of range", None, {})
                      ELSE Returned(deployments[Len(deployments)])
    /\ UNCHANGED <<current_project, current_cluster, stacks, clusters, overrides, module_inputs,
                   resources>>
    /\ ConfigUnchanged

Running(deployments) == {i \in DOMAIN deployments : deployments[i] = "RUNNING"}

\* The body of get_active_releases_of_current_environment(): the details of
\* the environment (which refresh the stored environment), the check that it
\* is running, then its releases.
ActiveReleases(deployments, up1, up2, up3) ==
    LET d == Details(<<>>, up1, up2) IN
    IF d.outcome.status # "ok"
    THEN [calls |-> d.calls, cluster |-> d.cluster, outcome |-> d.outcome, active |-> {}]
    ELSE IF d.outcome.returned.cluster_state # "RUNNING"
    THEN [calls |-> d.calls, cluster |-> d.cluster, active |-> {},
          outcome |-> Err("McpError", "Environment is not in running state", None, {})]
    ELSE LET r == Releases(d.calls, d.cluster, deployments, up3) IN
         [calls |-> r.calls, cluster |-> d.cluster,
          outcome |-> IF r.outcome.status = "ok" THEN Returned(Running(deployments)) ELSE r.outcome,
          active |-> IF r.outcome.status = "ok" THEN Running(deployments) ELSE {}]

\* get_active_releases_of_current_environment()
get_active_releases_of_current_environment ==
    /\ ClientConfigured
    /\ tool' = "get_active_releases_of_current_environment"
    /\ args' = NoArgs
    /\ \E deployments \in DeploymentLists, up1, up2, up3 \in BOOLEAN :
        LET a == ActiveReleases(deployments, up1, up2, up3) IN
        /\ calls' = a.calls
        /\ current_cluster' = a.cluster
        /\ outcome' = a.outcome
    /\ UNCHANGED <<current_project, stacks, clusters, overrides, module_inputs,
                   resources>>
    /\ ConfigUnchanged

\* get_active_release_logs_of_current_environment(): the logs of each active
\* release in turn; the first `answered` log calls succeed.
get_active_release_logs_of_current_environment ==
    /\ ClientConfigured
    /\ tool' = "get_active_release_logs_of_current_environment"
    /\ args' = NoArgs
    /\ \E deployments \in DeploymentLists, up1, up2, up3 \in BOOLEAN :
        LET a == ActiveReleases(deployments, up1, up2, up3)
            n == Cardinality(a.active)
        IN \E answered \in 0..n :
            LET asked == IF answered < n THEN answered + 1 ELSE n
                logs == [i \in 1..asked |->
                            ClusterCall("get_deployment_logs_using_get", a.cluster.id,
                                        NoRequest, i <= answered)]
            IN /\ calls' = a.calls \o logs
               /\ current_cluster' = a.cluster
               /\ outcome' = IF a.outcome.status # "ok" THEN a.outcome
                             ELSE IF answered < n THEN RemoteFailure
                             ELSE Returned("logs")
    /\ UNCHANGED <<current_project, stacks, clusters, overrides, module_inputs,
                   resources>>
    /\ ConfigUnchanged

-----------------------------------------------------------------------------
(* tools/env_tools.py: deployments.                                        *)

ReleaseTypes ==
    {"LAUNCH", "DESTROY", "HOTFIX_PLAN", "HOTFIX", "FULL_PLAN", "RELEASE", "CUSTOM",
     "UNLOCK_STATE", "SCALE_UP", "SCALE_DOWN"}

\* DeploymentRequestModel: every field is optional.
Flags == {None, "True", "False"}
DeploymentRequestModels ==
    [release_type : ReleaseTypes \cup {None},
     force_release : Flags,
     allow_destroy : Flags,
     with_refresh : Flags,
     hotfix_resources : {None, "[service/api]"},
     override_build_steps : {None, "[build]"},
     lock_id : {None, "lock-1"}]

\* The DeploymentRequest create_release_for_current_environment builds
\* (lines 419-438): lock_id is not among the fields it copies.
DeploymentRequest(properties) ==
    [release_type |-> properties.release_type,
     force_release |-> properties.force_release,
     allow_destroy |-> properties.allow_destroy,
     with_refresh |-> properties.with_refresh,
     hotfix_resources |-> properties.hotfix_resources,
     override_build_steps |-> IF properties.override_build_steps # None
                              THEN properties.override_build_steps ELSE "[]",
     lock_id |-> None]

MustBe(tag) == Err("McpError", "Release type must be <tag>", tag, {})
ResourcesRequired == Err("McpError", "Selective release resources must be provided", None, {})

\* The checks each named tool makes before it delegates: Ok, or the error.
launch_guard(properties) ==
    IF properties.release_type # "LAUNCH" THEN MustBe("LAUNCH") ELSE Ok

destroy_guard(properties) ==
    IF properties.release_type # "DESTROY" THEN MustBe("DESTROY") ELSE Ok

selective_release_plan_guard(properties) ==
    IF properties.release_type # "HOTFIX_PLAN" THEN MustBe("HOTFIX_PLAN")
    ELSE IF properties.hotfix_resources = None THEN ResourcesRequired
    ELSE Ok

selective_release_guard_mutant_type_only(properties) ==
    IF properties.release_type # "HOTFIX" THEN MustBe("HOTFIX") ELSE Ok

selective_release_guard(properties) ==
    IF properties.release_type # "HOTFIX" THEN MustBe("HOTFIX")
    ELSE IF properties.hotfix_resources = None THEN ResourcesRequired
    ELSE Ok

full_release_guard(properties) ==
    IF properties.release_type # "RELEASE" THEN MustBe("RELEASE") ELSE Ok

full_release_plan_guard(properties) ==
    IF properties.release_type # "FULL_PLAN" THEN MustBe("FULL_PLAN") ELSE Ok

custom_release_guard(properties) ==
    IF properties.release_type # "CUSTOM" \/ properties.override_build_steps = None
    THEN Err("McpError", "Release type must be <tag> and override build steps must be provided",
             "CUSTOM", {})
    ELSE Ok

unlock_state_guard(properties) ==
    IF properties.release_type # "UNLOCK_STATE" \/ properties.lock_id = None
    THEN Err("McpError", "Release type must be <tag> and lockId must be provided",
             "UNLOCK_STATE", {})
    ELSE Ok

scale_up_guard(properties) ==
    IF properties.release_type # "SCALE_UP" THEN MustBe("SCALE_UP") ELSE Ok

scale_down_guard_mutant_scale_up(properties) ==
    IF properties.release_type # "SCALE_UP" THEN MustBe("SCALE_UP") ELSE Ok

scale_down_guard(properties) ==
    IF properties.release_type # "SCALE_DOWN" THEN MustBe("SCALE_DOWN") ELSE Ok

\* create_release_for_current_environment(properties), reached from the tool
\* `name`: it reads the id of the current environment without checking that
\* one is set, then posts the deployment request.
create_release_for_current_environment(properties) ==
    IF get_current_cluster = NoCluster
    THEN /\ calls' = <<>>
         /\ outcome' = Err("AttributeError", "'NoneType' object has no attribute 'id'", None, {})
    ELSE \E up \in BOOLEAN :
         /\ calls' = <<ClusterCall("create_deployment_using_post", get_current_cluster.id,
                                   DeploymentRequest(properties), up)>>
         /\ outcome' = IF up THEN Returned("deployment id") ELSE RemoteFailure

\* A named deployment tool: its guard, then the delegation with the
\* properties as the tool leaves them.
NamedDeployment(name, properties, guard, delegated) ==
    /\ ClientConfigured
    /\ tool' = name
    /\ args' = [NoArgs EXCEPT !.properties = properties]
    /\ IF guard # Ok
       THEN /\ calls' = <<>>
            /\ outcome' = guard
       ELSE create_release_for_current_environment(delegated)
    /\ UNCHANGED <<current_project, current_cluster, stacks, clusters, overrides, module_inputs,
                   resources>>
    /\ ConfigUnchanged

launch_environment(properties) ==
    NamedDeployment("launch_environment", properties, launch_guard(properties), properties)

destroy_forced_mutant_as_passed(properties) == properties

\* properties.force_release = True
destroy_forced(properties) == [properties EXCEPT !.force_release = "True"]

destroy_environment(properties) ==
    NamedDeployment("destroy_environment", properties, destroy_guard(properties),
                    destroy_forced(properties))

create_selective_release_plan_for_environment(properties) ==
    NamedDeployment("create_selective_release_plan_for_environment", properties,
                    selective_release_plan_guard(properties), properties)

create_selective_release_for_environment(properties) ==
    NamedDeployment("create_selective_release_for_environment", properties,
                    selective_release_guard(properties), properties)

create_full_release_for_environment(properties) ==
    NamedDeployment("create_full_release_for_environment", properties,
                    full_release_guard(properties), properties)

create_full_release_plan_for_environment(properties) ==
    NamedDeployment("create_full_release_plan_for_environment", properties,
                    full_release_plan_guard(properties), properties)

create_custom_release_for_environment(properties) ==
    NamedDeployment("create_custom_release_for_environment", properties,
                    custom_release_guard(properties), properties)

unlock_state_of_environment(properties) ==
    NamedDeployment("unlock_state_of_environment", properties,
                    unlock_state_guard(properties), properties)

scale_up_environment(properties) ==
    NamedDeployment("scale_up_environment", properties, scale_up_guard(properties), properties)

scale_down_environment(properties) ==
    NamedDeployment("scale_down_environment", properties, scale_down_guard(properties), properties)

-----------------------------------------------------------------------------
(* tools/env_override_tool.py                                              *)

\* The values of the leaves are "{}" (an empty object), "3" (an int) and
\* "500m" (a str).

\* Python's type of the value `v` of a leaf.
TypeOf(v) == CASE v = "{}" -> "dict" [] v = "3" -> "int" [] v = "500m" -> "str"

\* `part in text` for a str: part is a substring of text.
Substring(part, text) == text = "500m" /\ part = "m"

IsPrefix(p, q) == Len(p) <= Len(q) /\ SubSeq(q, 1, Len(p)) = p

\* Python's type of what document d holds at `path` (which it holds).
TypeAt(d, path) ==
    IF \E e \in d : e.path = path
    THEN TypeOf((CHOOSE e \in d : e.path = path).value)
    ELSE "dict"

\* `key in level`, level being the dict of d at `path`.
HasKey(d, path, key) == \E e \in d : IsPrefix(Append(path, key), e.path)

\* Document d holds nothing under `path`.
NothingUnder(d, path) == ~\E e \in d : IsPrefix(path, e.path)

\* d without what it holds at `path`; the object that held it stays, as an
\* empty object if it held nothing else.
Deleted(d, path) ==
    LET parent == SubSeq(path, 1, Len(path) - 1)
        rest == {e \in d : ~IsPrefix(path, e.path)}
    IN IF parent # <<>> /\ NothingUnder(rest, parent)
       THEN rest \cup {[path |-> parent, value |-> "{}"]}
       ELSE rest

\* The clean-up loop of remove_resource_override, from index i (0-based)
\* down to 0: a parent object path_parts[:i+1] that is empty is deleted
\* from the object that holds it.
RECURSIVE CleanUp(_, _, _)
CleanUp(d, path_parts, i) ==
    IF i < 0 THEN d
    ELSE LET parent == SubSeq(path_parts, 1, i + 1) IN
         IF [path |-> parent, value |-> "{}"] \in d
         THEN CleanUp(Deleted(d, parent), path_parts, i - 1)
         ELSE CleanUp(d, path_parts, i - 1)

Removed_mutant_no_clean_up(d, path_parts) == Deleted(d, path_parts)

\* `del current_level[last_key]` and the clean-up of the parents.
Removed(d, path_parts) == CleanUp(Deleted(d, path_parts), path_parts, Len(path_parts) - 2)

IsEmptyDocument_mutant_never(d) == FALSE

\* `not overrides`: no key is left.
IsEmptyDocument(d) == d = EmptyDocument

\* The walk of remove_resource_override along path_parts, from the i-th part
\* on: "found" when the last part is a key of the object the walk reaches,
\* "not found" when a part is missing, "TypeError" when the walk runs into a
\* value that is not an object.
RECURSIVE Walk(_, _, _)
Walk(d, parts, i) ==
    LET level == SubSeq(parts, 1, i - 1)
        type == TypeAt(d, level)
        present == IF type = "dict" THEN HasKey(d, level, parts[i])
                   ELSE IF type = "str"
                   THEN Substring(parts[i], (CHOOSE e \in d : e.path = level).value)
                   ELSE FALSE
    IN IF type = "int" THEN "TypeError"
       ELSE IF ~present THEN "not found"
       ELSE IF type = "str" THEN "TypeError"
       ELSE IF i = Len(parts) THEN "found"
       ELSE Walk(d, parts, i + 1)

Message(text) == [Ok EXCEPT !.text = text]

\* The body of get_resource_overrides() when run after `before` calls: the
\* presence check, then the GET; `wrap` is the text of the ValueError that
\* replaces an exception of the call.
ResourceOverrides(before, up) ==
    IF ~is_current_cluster_and_project_set
    THEN [calls |-> before,
          outcome |-> Err("ValueError", "No current project or environment is set", None, {})]
    ELSE LET id == get_current_cluster.id
             document == overrides[id]
         IN [calls |-> Append(before, OverrideCall("get_resource_override_object_using_get",
                                                   id, NoDocument, up)),
             outcome |-> IF ~up THEN Err("ValueError", "Failed to get overrides", None, {})
                         ELSE IF IsEmptyDocument(document) THEN Message("No overrides found")
                         ELSE [Ok EXCEPT !.document = document]]

\* get_resource_overrides(resource_type, resource_name)
get_resource_overrides ==
    /\ ClientConfigured
    /\ tool' = "get_resource_overrides"
    /\ args' = NoArgs
    /\ \E up \in BOOLEAN :
        LET r == ResourceOverrides(<<>>, up) IN
        /\ calls' = r.calls
        /\ outcome' = r.outcome
    /\ UNCHANGED <<current_project, current_cluster, stacks, clusters, overrides, module_inputs,
                   resources>>
    /\ ConfigUnchanged

\* The body of override_resource() when run after `before` calls: the
\* presence check, then the POST of override_data.
OverrideResource(before, override_data, up) ==
    IF ~is_current_cluster_and_project_set
    THEN [calls |-> before, stored |-> overrides,
          outcome |-> Err("ValueError", "No current project or environment is set", None, {})]
    ELSE LET id == get_current_cluster.id IN
         [calls |-> Append(before, OverrideCall("post_resource_override_object_using_post",
                                                id, override_data, up)),
          stored |-> IF up THEN [overrides EXCEPT ![id] = override_data] ELSE overrides,
          outcome |-> IF up THEN Message("Successfully applied overrides")
                      ELSE Err("ValueError", "Failed to override resource", None, {})]

\* override_resource(resource_type, resource_name, override_data, sync)
override_resource(override_data) ==
    /\ ClientConfigured
    /\ tool' = "override_resource"
    /\ args' = [NoArgs EXCEPT !.override_data = override_data]
    /\ \E up \in BOOLEAN :
        LET r == OverrideResource(<<>>, override_data, up) IN
        /\ calls' = r.calls
        /\ overrides' = r.stored
        /\ outcome' = r.outcome
    /\ UNCHANGED <<current_project, current_cluster, stacks, clusters, module_inputs,
                   resources>>
    /\ ConfigUnchanged

\* The POST of an OverrideRequest whose overrides is None, after `before`
\* calls: the platform drops the overrides of the resource.
RemoveAll(before, text, up) ==
    LET id == get_current_cluster.id IN
    [calls |-> Append(before, OverrideCall("post_resource_override_object_using_post",
                                           id, NullDocument, up)),
     stored |-> IF up THEN [overrides EXCEPT ![id] = EmptyDocument] ELSE overrides,
     outcome |-> IF up THEN Message(text)
                 ELSE Err("ValueError", "Failed to remove overrides", None, {})]

\* remove_resource_override(resource_type, resource_name, property_path, sync);
\* property_path is given by its parts, <<>> for None or "".
remove_resource_override(path_parts) ==
    /\ ClientConfigured
    /\ tool' = "remove_resource_override"
    /\ args' = [NoArgs EXCEPT !.property_path = path_parts]
    /\ UNCHANGED <<current_project, current_cluster, stacks, clusters, module_inputs,
                   resources>>
    /\ ConfigUnchanged
    /\ IF ~is_current_cluster_and_project_set
       THEN /\ calls' = <<>>
            /\ outcome' = Err("ValueError", "No current project or environment is set", None, {})
            /\ UNCHANGED overrides
       ELSE \E up1, up2 \in BOOLEAN :
            LET current == ResourceOverrides(<<>>, up1)
                document == overrides[get_current_cluster.id]
                walk == Walk(document, path_parts, 1)
                left == Removed(document, path_parts)
                result ==
                    IF current.outcome.status # "ok"
                    THEN [calls |-> current.calls, stored |-> overrides,
                          outcome |-> Err("ValueError", "Failed to remove overrides", None, {})]
                    ELSE IF current.outcome.text = "No overrides found"
                    THEN [calls |-> current.calls, stored |-> overrides,
                          outcome |-> Message("No overrides found")]
                    ELSE IF path_parts = <<>>
                    THEN RemoveAll(current.calls, "Successfully removed all overrides", up2)
                    ELSE IF walk = "TypeError"
                    THEN [calls |-> current.calls, stored |-> overrides,
                          outcome |-> Err("ValueError", "Failed to remove overrides", None, {})]
                    ELSE IF walk = "not found"
                    THEN [calls |-> current.calls, stored |-> overrides,
                          outcome |-> Message("Property path not found in overrides")]
                    ELSE IF IsEmptyDocument(left)
                    THEN RemoveAll(current.calls,
                                   "Successfully removed all overrides because the overrides became empty",
                                   up2)
                    ELSE LET posted == OverrideResource(current.calls, left, up2) IN
                         [calls |-> posted.calls, stored |-> posted.stored,
                          outcome |-> IF posted.outcome.status = "ok" THEN posted.outcome
                                      ELSE Err("ValueError", "Failed to remove overrides", None, {})]
            IN /\ calls' = result.calls
               /\ overrides' = result.stored
               /\ outcome' = result.outcome

-----------------------------------------------------------------------------
(* tools/configure_resource_tool.py                                        *)

ModuleInputNames == {"database", "cache"}
CompatibleResources == {"pg-main"}
OutputNames == {"default", "conn"}

\* The module does not declare the input.
NotDeclared == [declared |-> FALSE, optional |-> None, compatible |-> {}]

\* What a module can say of an input.
ModuleInputs ==
    {NotDeclared} \cup [declared : {TRUE}, optional : {"True", "False"},
                        compatible : SUBSET CompatibleResources]

\* The module declares no inputs, and no project has the resource.
NoModuleInputs == [n \in ModuleInputNames |-> NotDeclared]
NoResources == [p \in Projects |-> NoResourceRequest]

\* The values a caller passes: missing (None), empty, or given.
Flavors == {None, "", "default"}
Versions == {None, "", "1.0"}
Contents == {None, "{}", "{spec}"}

\* `not value` for an optional str or dict argument.
Falsy(value) == value \in {None, "", "{}"}

\* The entry a caller gives for input n, choosing output `output_name` of
\* the resource.
InputEntry(n, output_name) ==
    [input |-> n, resource_name |-> "pg-main", resource_type |-> "postgres",
     output_name |-> output_name]

\* The inputs arguments: None, or a mapping with at most one entry per input.
InputsArguments ==
    {NoInputs} \cup
    {[given |-> TRUE, entries |-> e] :
        e \in {{}, {InputEntry("database", "default")}, {InputEntry("database", "conn")},
               {InputEntry("database", "conn"), InputEntry("cache", "conn")}}}

\* The branch of a project's stack; a stack without one gives None.
BranchOf(p) == IF p = "shop" THEN "main" ELSE None

\* The result of get_module_inputs(): every declared input, with its
\* `optional` flag and its compatible resources.
FormattedModuleInputs == {n \in ModuleInputNames : module_inputs[n].declared}

\* The body of get_module_inputs() when run after `before` calls.
ModuleInputsFetched(before, project_name, up) ==
    [calls |-> Append(before, ResourceCall("get_module_inputs_using_get", project_name,
                                           NoResourceRequest, up)),
     outcome |-> IF up THEN Returned(FormattedModuleInputs)
                 ELSE Err("ValueError", "Failed to get module inputs", None, {})]

\* get_module_inputs(project_name, resource_type, flavor)
get_module_inputs(project_name) ==
    /\ ClientConfigured
    /\ tool' = "get_module_inputs"
    /\ args' = [NoArgs EXCEPT !.project_name = project_name]
    /\ \E up \in BOOLEAN :
        LET r == ModuleInputsFetched(<<>>, project_name, up) IN
        /\ calls' = r.calls
        /\ outcome' = r.outcome
    /\ UNCHANGED <<current_project, current_cluster, stacks, clusters, overrides, module_inputs,
                   resources>>
    /\ ConfigUnchanged

\* required_inputs of add_resource: the inputs that are not optional and
\* have a compatible resource.
required_inputs ==
    {n \in FormattedModuleInputs :
        module_inputs[n].optional # "True" /\ module_inputs[n].compatible # {}}

\* formatted_inputs of add_resource: each entry keeps resource_name and
\* resource_type, and its output_name unless that is 'default'.
formatted_inputs(inputs) ==
    [given |-> TRUE,
     entries |-> {[e EXCEPT !.output_name = IF e.output_name = "default" THEN "<absent>"
                                            ELSE e.output_name] : e \in inputs.entries}]

\* `if inputs:` - a mapping with at least one entry.
Truthy(inputs) == inputs.given /\ inputs.entries # {}

\* The ResourceFileRequest add_resource builds.
ResourceRequest(flavor, version, content, inputs, branch) ==
    [resource_name |-> "api", resource_type |-> "service", flavor |-> flavor,
     version |-> version, content |-> content,
     inputs |-> IF Truthy(inputs) THEN formatted_inputs(inputs) ELSE NoInputs,
     directory |-> None, filename |-> None, branch |-> branch]

\* The resource as the platform keeps it: the server determines directory
\* and filename.
Located(request) ==
    [request EXCEPT !.directory = "service/instances", !.filename = "api.json"]

\* A resource that was in the project before the session began.
ExistingResource ==
    [resource_name |-> "api", resource_type |-> "service", flavor |-> "default",
     version |-> "1.0", content |-> "{spec}", inputs |-> NoInputs,
     directory |-> "apps", filename |-> "api.yaml", branch |-> "main"]

\* The text of the ValueError the resource tools raise in place of every
\* exception of their bodies: it names the resource, its type and the project.
FailureText(operation, project_name, cause) ==
    "Failed to " \o operation \o " resource 'api' of type 'service', project '"
        \o project_name \o "': " \o cause

\* The ValueError add_resource raises in place of every exception of its body.
FailedToAdd(project_name, cause, names) ==
    Err("ValueError", FailureText("add", project_name, cause), None, names)

missing_flavor_mutant_accept(flavor) == FALSE

\* `if not flavor:`
missing_flavor(flavor) == Falsy(flavor)

\* add_resource(project_name, resource_type, resource_name, flavor, version,
\* content, inputs)
add_resource(project_name, flavor, version, content, inputs) ==
    /\ ClientConfigured
    /\ tool' = "add_resource"
    /\ args' = [NoArgs EXCEPT !.project_name = project_name, !.flavor = flavor,
                              !.version = version, !.content = content, !.inputs = inputs]
    /\ UNCHANGED <<current_project, current_cluster, stacks, clusters, overrides, module_inputs>>
    /\ ConfigUnchanged
    /\ IF missing_flavor(flavor)
       THEN /\ calls' = <<>>
            /\ outcome' = FailedToAdd(project_name, "Flavor must be specified", {})
            /\ UNCHANGED resources
       ELSE IF Falsy(version)
       THEN /\ calls' = <<>>
            /\ outcome' = FailedToAdd(project_name, "Version must be specified", {})
            /\ UNCHANGED resources
       ELSE IF Falsy(content)
       THEN /\ calls' = <<>>
            /\ outcome' = FailedToAdd(project_name, "Content must be specified", {})
            /\ UNCHANGED resources
       ELSE \E up1, up2, up3 \in BOOLEAN :
            LET module == IF inputs.given
                          THEN [calls |-> <<>>, outcome |-> Ok]
                          ELSE ModuleInputsFetched(<<>>, project_name, up1)
                fetched == Append(module.calls,
                                  Call("get_stack_using_get", project_name, NoRequest, up2))
                request == ResourceRequest(flavor, version, content, inputs,
                                           BranchOf(project_name))
            IN IF module.outcome.status # "ok"
               THEN /\ calls' = module.calls
                    /\ outcome' = FailedToAdd(project_name, "Failed to get module inputs", {})
                    /\ UNCHANGED resources
               ELSE IF ~inputs.given /\ required_inputs # {}
               THEN /\ calls' = module.calls
                    /\ outcome' = FailedToAdd(project_name, "Inputs must be specified", required_inputs)
                    /\ UNCHANGED resources
               ELSE IF ~up2
               THEN /\ calls' = fetched
                    /\ outcome' = FailedToAdd(project_name, "remote call failed", {})
                    /\ UNCHANGED resources
               ELSE /\ calls' = Append(fetched, ResourceCall("create_resources_using_post",
                                                             project_name, request, up3))
                    /\ outcome' = IF up3 THEN Returned("created")
                                  ELSE FailedToAdd(project_name, "remote call failed", {})
                    /\ resources' = IF up3
                                    THEN [resources EXCEPT ![project_name] = Located(request)]
                                    ELSE resources

ResourceFetched_mutant_retry(before, project_name, up) ==
    LET found == up /\ resources[project_name] # NoResourceRequest
        call == ResourceCall("get_resource_by_stack_using_get", project_name,
                             NoResourceRequest, found)
    IN [calls |-> IF found THEN Append(before, call) ELSE Append(Append(before, call), call),
        found |-> found,
        resource_data |-> resources[project_name],
        outcome |-> IF found THEN Returned("resource_data")
                    ELSE Err("ValueError", FailureText("get", project_name, "remote call failed"),
                             None, {})]

\* The body of get_resource_by_project() when run after `before` calls: the
\* call succeeds if the platform answers and has the resource.
ResourceFetched(before, project_name, up) ==
    LET found == up /\ resources[project_name] # NoResourceRequest IN
    [calls |-> Append(before, ResourceCall("get_resource_by_stack_using_get", project_name,
                                           NoResourceRequest, found)),
     found |-> found,
     resource_data |-> resources[project_name],
     outcome |-> IF found THEN Returned("resource_data")
                 ELSE Err("ValueError", FailureText("get", project_name, "remote call failed"),
                          None, {})]

\* get_resource_by_project(project_name, resource_type, resource_name)
get_resource_by_project(project_name) ==
    /\ ClientConfigured
    /\ tool' = "get_resource_by_project"
    /\ args' = [NoArgs EXCEPT !.project_name = project_name]
    /\ \E up \in BOOLEAN :
        LET r == ResourceFetched(<<>>, project_name, up) IN
        /\ calls' = r.calls
        /\ outcome' = r.outcome
    /\ UNCHANGED <<current_project, current_cluster, stacks, clusters, overrides, module_inputs,
                   resources>>
    /\ ConfigUnchanged

MutationRequest_mutant_no_location(content, current_resource, branch) ==
    [resource_name |-> "api", resource_type |-> "service", flavor |-> None,
     version |-> None, content |-> content, inputs |-> NoInputs,
     directory |-> None, filename |-> None, branch |-> branch]

\* The ResourceFileRequest of update_resource and delete_resource: content
\* (update only), and the directory and filename of the resource as fetched.
MutationRequest(content, current_resource, branch) ==
    [resource_name |-> "api", resource_type |-> "service", flavor |-> None,
     version |-> None, content |-> content, inputs |-> NoInputs,
     directory |-> current_resource.directory, filename |-> current_resource.filename,
     branch |-> branch]

\* update_resource and delete_resource: fetch the resource, fetch the stack
\* for its branch, then call `api`, which leaves the platform with `mutated`.
ResourceMutation(name, operation, project_name, content, api, mutated) ==
    /\ ClientConfigured
    /\ tool' = name
    /\ args' = [NoArgs EXCEPT !.project_name = project_name, !.content = content]
    /\ UNCHANGED <<current_project, current_cluster, stacks, clusters, overrides, module_inputs>>
    /\ ConfigUnchanged
    /\ \E up1, up2, up3 \in BOOLEAN :
        LET current == ResourceFetched(<<>>, project_name, up1)
            fetched == Append(current.calls,
                              Call("get_stack_using_get", project_name, NoRequest, up2))
            request == MutationRequest(content, current.resource_data, BranchOf(project_name))
        IN IF ~current.found
           THEN /\ calls' = current.calls
                /\ outcome' = Err("ValueError",
                                  FailureText(operation, project_name, "Failed to get resource"),
                                  None, {})
                /\ UNCHANGED resources
           ELSE IF ~up2
           THEN /\ calls' = fetched
                /\ outcome' = Err("ValueError",
                                  FailureText(operation, project_name, "remote call failed"),
                                  None, {})
                /\ UNCHANGED resources
           ELSE /\ calls' = Append(fetched, ResourceCall(api, project_name, request, up3))
                /\ outcome' = IF up3 THEN Returned(operation)
                              ELSE Err("ValueError",
                                       FailureText(operation, project_name, "remote call failed"),
                                       None, {})
                /\ resources' = IF up3 THEN [resources EXCEPT ![project_name] = mutated]
                                ELSE resources

\* update_resource(project_name, resource_type, resource_name, content)
update_resource(project_name, content) ==
    ResourceMutation("update_resource", "update", project_name, content,
                     "update_resources_using_put",
                     [resources[project_name] EXCEPT !.content = content])

\* update_resource of tools/project_tools.py, defined and decorated under the
\* same tool name: the same two reads, then create_resources_using_post.
project_tools_update_resource(project_name, content) ==
    ResourceMutation("update_resource", "update", project_name, content,
                     "create_resources_using_post",
                     [resources[project_name] EXCEPT !.content = content])

\* delete_resource(project_name, resource_type, resource_name)
delete_resource(project_name) ==
    ResourceMutation("delete_resource", "delete", project_name, None,
                     "delete_resources_using_delete", NoResourceRequest)

\* The platform, changed by someone else: environment `id` is deleted, or
\* created, or its metadata entry changes.
platform_changes_cluster(id) ==
    /\ \E c \in [listed : BOOLEAN, meta : ClusterStates \cup {None}] :
        /\ c # clusters[id]
        /\ c.listed \/ c.meta = None
        /\ clusters' = [clusters EXCEPT ![id] = c]
    /\ UNCHANGED <<current_project, current_cluster, stacks, overrides, module_inputs,
                   resources, tool, args, calls, outcome>>
    /\ ConfigUnchanged

-----------------------------------------------------------------------------
(* tools/release_stream_tool.py                                            *)

\* create_release_stream(name, is_prod, description): one call; a failure is
\* not caught.
create_release_stream ==
    /\ ClientConfigured
    /\ tool' = "create_release_stream"
    /\ args' = NoArgs
    /\ \E up \in BOOLEAN :
        /\ calls' = <<Call("add_using_post", "-", NoRequest, up)>>
        /\ outcome' = IF up THEN Returned("release stream") ELSE RemoteFailure
    /\ UNCHANGED <<current_project, current_cluster, stacks, clusters, overrides,
                   module_inputs, resources>>
    /\ ConfigUnchanged

-----------------------------------------------------------------------------
(* Model converters: wire environment to tool-facing model                 *)
(* (src/tools/env_tools.py) and tool-facing model to wire model            *)
(* (src/utils/client_utils.py).                                            *)

\* AbstractClusterModel.model_fields: the declared fields with their
\* annotation, one field of each kind the converter tells apart: the four
\* scalar types it has a zero value for, and any other annotation (a mapping,
\* a list, a timestamp), which takes its `else` branch.
ModelFields == {"name", "pause_releases", "number_of_versions",
                "k8s_requests_to_limit_ratio", "variables"}

AnnotationOf(field_name) ==
    CASE field_name = "name" -> "str"
      [] field_name = "pause_releases" -> "bool"
      [] field_name = "number_of_versions" -> "int"
      [] field_name = "k8s_requests_to_limit_ratio" -> "float"
      [] OTHER -> "other"

\* A wire attribute that the wire object does not have at all.
NoAttribute == "<no attribute>"

\* A value the wire object can carry for a field of each annotation.
WireValue(annotation) ==
    CASE annotation = "str" -> "prod"
      [] annotation = "bool" -> "True"
      [] annotation = "int" -> "7"
      [] annotation = "float" -> "1.5"
      [] OTHER -> "{'k': 'v'}"

\* The wire environments: every field is missing, None, or carries a value.
SwaggerEnvironments ==
    [ModelFields -> {NoAttribute, None, "value"}]

\* getattr(swagger_environment, swagger_field, None)
GetAttr(swagger_environment, field_name) ==
    CASE swagger_environment[field_name] = NoAttribute -> None
      [] swagger_environment[field_name] = None -> None
      [] OTHER -> WireValue(AnnotationOf(field_name))

\* The default the converter stores for a None wire value: the zero value of
\* a str, bool, int or float annotation, and None itself for any other.
DefaultFor(annotation) ==
    CASE annotation = "str" -> ""
      [] annotation = "bool" -> "False"
      [] annotation = "int" -> "0"
      [] annotation = "float" -> "0.0"
      [] OTHER -> None

\* environment_data as the loop over model_fields builds it.
EnvironmentData(swagger_environment) ==
    [field_name \in ModelFields |->
        IF GetAttr(swagger_environment, field_name) = None
        THEN DefaultFor(AnnotationOf(field_name))
        ELSE GetAttr(swagger_environment, field_name)]

\* AbstractClusterModel.model_validate(environment_data): the schema's types
\* are non-null, so a None entry is a validation error.
ModelValidate(environment_data) ==
    IF \E field_name \in ModelFields : environment_data[field_name] = None
    THEN Err("ValidationError", "Input should be a valid value", "validation", {})
    ELSE Returned(environment_data)

\* _convert_swagger_environment_to_pydantic(swagger_environment)
convert_swagger_environment_to_pydantic(swagger_environment) ==
    /\ tool' = "_convert_swagger_environment_to_pydantic"
    /\ args' = [NoArgs EXCEPT !.instance = swagger_environment]
    /\ calls' = <<>>
    /\ outcome' = ModelValidate(EnvironmentData(swagger_environment))
    /\ UNCHANGED <<current_project, current_cluster, stacks, clusters, overrides,
                   module_inputs, resources>>
    /\ ConfigUnchanged

\* Variables.attribute_map of the wire schema: attribute name to JSON key.
\* The reserved word "global" is stored under the attribute "_global".
AttributeMap ==
    [attribute \in {"description", "_global", "secret", "value"} |->
        IF attribute = "_global" THEN "global" ELSE attribute]

\* Variables.swagger_types: the attributes the wire constructor accepts.
SwaggerTypes == DOMAIN AttributeMap

\* A field of the tool-facing model that was never set.
Unset == "<unset>"

\* The tool-facing variable models, by alias: each field unset or set.
PydanticInstances ==
    [{AttributeMap[a] : a \in SwaggerTypes} -> {Unset, "a", "b"}]

\* pydantic_instance.dict(by_alias=True, exclude_unset=True): the aliases of
\* the fields that were set.
DictByAlias(pydantic_instance) ==
    {field_name \in DOMAIN pydantic_instance : pydantic_instance[field_name] # Unset}

SwaggerField_mutant_no_alias(field_name) == field_name

\* reverse_alias_map.get(field_name, field_name)
SwaggerField(field_name) ==
    IF \E a \in SwaggerTypes : AttributeMap[a] = field_name
    THEN CHOOSE a \in SwaggerTypes : AttributeMap[a] = field_name
    ELSE field_name

\* The keyword the value is passed under; of the names of this schema only
\* "_global" starts with an underscore.
Keyword(swagger_field) ==
    LET StartsWithUnderscore == swagger_field \in {"_global"}
    IN  IF StartsWithUnderscore \/ swagger_field \in SwaggerTypes
        THEN swagger_field
        ELSE IF (swagger_field \o "_") \in SwaggerTypes
             THEN swagger_field \o "_"
             ELSE swagger_field

\* swagger_kwargs after the loop.
SwaggerKwargs(pydantic_instance) ==
    {[attribute |-> Keyword(SwaggerField(field_name)),
      value |-> pydantic_instance[field_name]] :
        field_name \in DictByAlias(pydantic_instance)}

\* swagger_class(**swagger_kwargs): a keyword the constructor does not have
\* is a TypeError.
SwaggerInstance(swagger_kwargs) ==
    IF \E k \in swagger_kwargs : k.attribute \notin SwaggerTypes
    THEN Err("TypeError", "__init__() got an unexpected keyword argument",
             "constructor", {})
    ELSE Returned(swagger_kwargs)

pydantic_instance_to_swagger_instance(pydantic_instance) ==
    /\ tool' = "pydantic_instance_to_swagger_instance"
    /\ args' = [NoArgs EXCEPT !.instance = pydantic_instance]
    /\ calls' = <<>>
    /\ outcome' = SwaggerInstance(SwaggerKwargs(pydantic_instance))
    /\ UNCHANGED <<current_project, current_cluster, stacks, clusters, overrides,
                   module_inputs, resources>>
    /\ ConfigUnchanged

-----------------------------------------------------------------------------
(* Initial states.                                                         *)

\* A process whose configuration was resolved: the tool modules call
\* get_mcp_instance() when they are imported, so a tool can only be invoked
\* after initialize() succeeded.
ResolvedConfig == [k \in ConfigKeys |-> "env-" \o k]

ToolsEnviron ==
    [v \in EnvVars |-> IF v = "FACETS_PROFILE" THEN "" ELSE
        CHOOSE x \in {ResolvedConfig[k] : k \in {c \in ConfigKeys : EnvVarOf(c) = v}} : TRUE]

NothingInvoked ==
    /\ caller_properties = NoProperties
    /\ tool = "-"
    /\ args = NoArgs
    /\ calls = <<>>
    /\ outcome = Ok

\* The session store of a fresh process: class attribute _current_project = None.
SessionEmpty ==
    /\ current_project = NoProject
    /\ current_cluster = NoCluster
    /\ invocations = NoneInFlight

\* The platform's environments: all listed, with metadata.
AllClustersRunning == [id \in ClusterIds |-> [listed |-> TRUE, meta |-> "RUNNING"]]

ConfigResolved ==
    /\ environ = ToolsEnviron
    /\ credentials = [p \in ProfileNames \ {""} |-> NoSection]
    /\ client_config = ResolvedConfig
    /\ initialized = TRUE
    /\ server = Serving

ToolsInit ==
    /\ ConfigResolved
    /\ SessionEmpty
    /\ NothingInvoked

-----------------------------------------------------------------------------
(* SpecConfig: configuration resolution at startup, for every environment  *)
(* and credentials file.                                                   *)

InitConfig ==
    /\ environ \in [EnvVars -> {"", "env-cp_url", "env-username", "env-token", "default"}]
    /\ environ["FACETS_PROFILE"] \in ProfileNames
    /\ \A k \in ConfigKeys : environ[EnvVarOf(k)] \in EnvValues(k)
    /\ credentials \in [ProfileNames \ {""} ->
            {NoSection} \cup {s \in [FileKeys -> {NoKey, "", "file-control_plane_url",
                                                  "file-username", "file-token"}] :
                                \A k \in FileKeys : s[k] \in FileValues(k)}]
    /\ client_config = NoConfig
    /\ initialized = FALSE
    /\ server = Starting
    /\ SessionEmpty
    /\ stacks = [p \in Projects |-> [n \in VarNames |-> Absent]]
    /\ clusters = AllClustersRunning
    /\ overrides = NoOverrides
    /\ module_inputs = NoModuleInputs
    /\ resources = NoResources
    /\ NothingInvoked

NextConfig ==
    \/ get_mcp_instance
    \/ get_client

SpecConfig == InitConfig /\ [][NextConfig]_vars

-----------------------------------------------------------------------------
(* SpecVars: the variable workflow over the cached current project.        *)

InitVars ==
    /\ ToolsInit
    /\ stacks \in [Projects -> [VarNames -> {Absent} \cup VarValues]]
    /\ clusters = AllClustersRunning
    /\ overrides = NoOverrides
    /\ module_inputs = NoModuleInputs
    /\ resources = NoResources

NextVars ==
    \/ \E name \in ProjectNames : use_project(name)
    \/ refresh_current_project
    \/ get_secrets_and_vars
    \/ \E names \in SUBSET VarNames, v \in VarValues : create_variables(names, v)
    \/ \E names \in SUBSET VarNames, v \in VarValues : update_variables(names, v)
    \/ \E names \in SUBSET VarNames : delete_variables(names)

SpecVars == InitVars /\ [][NextVars]_vars

-----------------------------------------------------------------------------
(* Claims about configuration resolution (SpecConfig).                     *)

\* Field k is still empty after the profile merge: the environment does not
\* set it and the named profile's section does not supply it.
StillMissing(k) ==
    /\ getenv(EnvVarOf(k)) = ""
    /\ \/ getenv("FACETS_PROFILE") = ""
       \/ ~has_section(getenv("FACETS_PROFILE"))
       \/ credentials[getenv("FACETS_PROFILE")][FileKeyOf(k)] \in {NoKey, ""}

\* C6: whenever url, username or token is still empty after the profile
\* merge, initialize() fails, the process-wide client configuration stays
\* unset, and get_client() fails instead of constructing a client.
C6_IncompleteConfigurationFails ==
    (\E k \in ConfigKeys : StillMissing(k)) =>
        /\ client_config = NoConfig
        /\ ~initialized
        /\ tool \in {"get_mcp_instance", "get_client"} =>
              outcome.status = "error" /\ outcome.etype = "ValueError"

\* C6 witness: a profile is named, its section exists and was merged, a field
\* is still empty, and initialize() has just failed.
C6_Witness ==
    /\ tool = "get_mcp_instance"
    /\ NeedsProfile /\ has_section(getenv("FACETS_PROFILE"))
    /\ \E k \in ConfigKeys : StillMissing(k)
    /\ \E k \in ConfigKeys : credentials[getenv("FACETS_PROFILE")][FileKeyOf(k)] = "file-" \o FileKeyOf(k)
    /\ outcome.status = "error"
    /\ client_config = NoConfig

\* C7: when a profile is named and a field is missing from the environment,
\* the resolved configuration keeps the environment's value of every field
\* the environment sets; the profile section fills only the missing fields.
C7_EnvironmentTakesPrecedence ==
    (tool = "get_mcp_instance" /\ outcome.status = "ok" /\ NeedsProfile) =>
        \A k \in ConfigKeys :
            client_config[k] = IF getenv(EnvVarOf(k)) # ""
                               THEN getenv(EnvVarOf(k))
                               ELSE credentials[getenv("FACETS_PROFILE")][FileKeyOf(k)]

-----------------------------------------------------------------------------
(* Claims about the variable workflow (SpecVars).                          *)

VariableTools == {"create_variables", "update_variables", "delete_variables"}

\* The requested names that fail the existence check of tool t, judged on
\* the cached variable mapping `cached`.
Offending(t, names, cached) ==
    IF t = "create_variables"
    THEN {n \in names : cached[n] # Absent}
    ELSE {n \in names : cached[n] = Absent}

ExistenceErrors ==
    {"The following variables already exist", "The following variables do not exist"}

\* C8: the existence check is decided from the cached project only.  An
\* invocation fails the check exactly when a requested name is present
\* (create) or absent (update, delete) in the cached mapping; the error names
\* exactly those names, no remote call is made, and the cached project and
\* the platform are unchanged.
C8_ExistenceCheckOnCache ==
    [][(tool' \in VariableTools /\ IsSet(current_project)) =>
        LET off == Offending(tool', args'.variables, current_project.cluster_variables_meta) IN
        /\ off # {} =>
            /\ outcome'.status = "error"
            /\ outcome'.text = (IF tool' = "create_variables"
                                THEN "The following variables already exist"
                                ELSE "The following variables do not exist")
            /\ outcome'.names = off
            /\ calls' = <<>>
            /\ current_project' = current_project
            /\ stacks' = stacks
        /\ off = {} =>
            /\ outcome'.text \notin ExistenceErrors
            /\ Len(calls') >= 1]_vars

\* C8 witness: the cache still holds DB_HOST although the platform no longer
\* has it, and create_variables fails naming DB_HOST without a remote call.
C8_Witness ==
    /\ tool = "create_variables"
    /\ args.variables = {"DB_HOST", "API_KEY"}
    /\ outcome.status = "error"
    /\ outcome.names = {"DB_HOST"}
    /\ calls = <<>>
    /\ stacks[current_project.name]["DB_HOST"] = Absent

\* The mutation call of the last invocation succeeded.
MutationSucceeded(t, cs) == t \in VariableTools /\ Len(cs) >= 1 /\ cs[1].ok

\* C9 as stated: after every variable mutation whose mutation call succeeded,
\* the cached current project is the project as the platform holds it after
\* the mutation.
C9_CacheRefreshedAfterMutation ==
    [][MutationSucceeded(tool', calls') =>
        current_project' = Stack(current_project.name)']_vars

\* C9 amended: after a successful mutation call the project is re-fetched by
\* the cached name, as the next remote call; when that fetch succeeds the
\* cache is replaced by the platform's project, so the next existence check
\* sees the mutated mapping; when it fails the invocation fails and the
\* cache keeps the copy from before the mutation.
C9_CacheRefreshedWhenRefetchSucceeds ==
    [][MutationSucceeded(tool', calls') =>
        /\ Len(calls') = 2
        /\ calls'[2].api = "get_stack_using_get"
        /\ calls'[2].target = current_project.name
        /\ stacks' = (IF tool' = "delete_variables"
                      THEN DeleteVariables(current_project.name, args'.variables)
                      ELSE AddVariables(current_project.name, args'.variables, args'.value))
        /\ IF calls'[2].ok
           THEN /\ outcome'.status = "ok"
                /\ current_project'.name = current_project.name
                /\ current_project'.cluster_variables_meta = stacks'[current_project.name]
                /\ Offending("create_variables", args'.variables,
                             current_project'.cluster_variables_meta)
                     = (IF tool' = "delete_variables" THEN {} ELSE args'.variables)
           ELSE /\ outcome'.status = "error"
                /\ current_project' = current_project]_vars

\* C9 witness: create_variables added DB_HOST on the platform, the re-fetch
\* succeeded, and the cache now holds the new variable.
C9_Witness ==
    /\ tool = "create_variables"
    /\ args.variables = {"DB_HOST"}
    /\ Len(calls) = 2 /\ calls[1].ok /\ calls[2].ok
    /\ outcome.status = "ok"
    /\ current_project.cluster_variables_meta["DB_HOST"] = args.value
    /\ current_project.cluster_variables_meta = stacks[current_project.name]

-----------------------------------------------------------------------------
(* Spec: project and environment selection against a platform whose        *)
(* environments come and go.                                               *)

FixedStacks == [p \in Projects |-> [n \in VarNames |-> IF n = "DB_HOST" THEN "v1" ELSE Absent]]

Init ==
    /\ ToolsInit
    /\ stacks = FixedStacks
    /\ clusters = AllClustersRunning
    /\ overrides = NoOverrides
    /\ module_inputs = NoModuleInputs
    /\ resources = NoResources

Next ==
    \/ get_all_projects
    \/ \E name \in ProjectNames : use_project(name)
    \/ refresh_current_project
    \/ \E name \in EnvironmentNames : use_environment(name)
    \/ get_all_environments
    \/ get_current_environment_details
    \/ check_if_environment_is_running
    \/ \E id \in ClusterIds : platform_changes_cluster(id)

Spec == Init /\ [][Next]_vars

\* C1: whenever a current environment is set, it is one of the environments
\* the platform lists for the project held in the session store.
C1_EnvironmentBelongsToProject ==
    current_cluster # NoCluster =>
        /\ current_project # NoProject
        /\ current_cluster.id \in ListedIds(current_project.name)

-----------------------------------------------------------------------------
(* SpecSession: the four operations that write the session store, against  *)
(* a platform that does not change.                                        *)

InitSession ==
    /\ ToolsInit
    /\ stacks = FixedStacks
    /\ clusters \in [ClusterIds -> {c \in [listed : BOOLEAN, meta : ClusterStates \cup {None}] :
                                        c.listed \/ c.meta = None}]
    /\ overrides = NoOverrides
    /\ module_inputs = NoModuleInputs
    /\ resources = NoResources

NextSession ==
    \/ \E name \in ProjectNames : use_project(name)
    \/ \E name \in EnvironmentNames : use_environment(name)
    \/ refresh_current_project
    \/ get_current_environment_details

SpecSession == InitSession /\ [][NextSession]_vars

-----------------------------------------------------------------------------
(* SpecDeploy: the tools that need the current project and environment,    *)
(* from a fresh session through the selection of one environment.          *)

InitDeploy ==
    /\ ConfigResolved
    /\ SessionEmpty
    /\ caller_properties \in DeploymentRequestModels
    /\ tool = "-"
    /\ args = NoArgs
    /\ calls = <<>>
    /\ outcome = Ok
    /\ stacks = FixedStacks
    /\ clusters = AllClustersRunning
    /\ overrides = NoOverrides
    /\ module_inputs = NoModuleInputs
    /\ resources = NoResources

NextDeploy ==
    \/ use_project("shop")
    \/ use_environment("prod")
    \/ launch_environment(caller_properties)
    \/ destroy_environment(caller_properties)
    \/ create_selective_release_plan_for_environment(caller_properties)
    \/ create_selective_release_for_environment(caller_properties)
    \/ create_full_release_for_environment(caller_properties)
    \/ create_full_release_plan_for_environment(caller_properties)
    \/ create_custom_release_for_environment(caller_properties)
    \/ unlock_state_of_environment(caller_properties)
    \/ scale_up_environment(caller_properties)
    \/ scale_down_environment(caller_properties)

SpecDeploy == InitDeploy /\ [][NextDeploy]_vars

-----------------------------------------------------------------------------
(* Claims about the named deployment tools (SpecDeploy).                   *)

DeploymentTools ==
    {"launch_environment", "destroy_environment",
     "create_selective_release_plan_for_environment",
     "create_selective_release_for_environment", "create_full_release_for_environment",
     "create_full_release_plan_for_environment", "create_custom_release_for_environment",
     "unlock_state_of_environment", "scale_up_environment", "scale_down_environment"}

\* The release type each named tool is for.
ExpectedType(name) ==
    CASE name = "launch_environment" -> "LAUNCH"
      [] name = "destroy_environment" -> "DESTROY"
      [] name = "create_selective_release_plan_for_environment" -> "HOTFIX_PLAN"
      [] name = "create_selective_release_for_environment" -> "HOTFIX"
      [] name = "create_full_release_for_environment" -> "RELEASE"
      [] name = "create_full_release_plan_for_environment" -> "FULL_PLAN"
      [] name = "create_custom_release_for_environment" -> "CUSTOM"
      [] name = "unlock_state_of_environment" -> "UNLOCK_STATE"
      [] name = "scale_up_environment" -> "SCALE_UP"
      [] name = "scale_down_environment" -> "SCALE_DOWN"

\* The messages that say the release type must be <tag>.
ReleaseTypeMessages ==
    {"Release type must be <tag>",
     "Release type must be <tag> and override build steps must be provided",
     "Release type must be <tag> and lockId must be provided"}

\* C3: a named deployment tool invoked with a release_type other than its
\* own fails with an error saying the release type must be its tag, and
\* makes no remote call; launch_environment says "Release type must be
\* LAUNCH".
C3_WrongReleaseTypeRejected ==
    (tool \in DeploymentTools /\ args.properties.release_type # ExpectedType(tool))
        => /\ outcome.status = "error"
           /\ outcome.text \in ReleaseTypeMessages
           /\ outcome.tag = ExpectedType(tool)
           /\ calls = <<>>
           /\ tool = "launch_environment" => outcome = MustBe("LAUNCH")

\* launch_environment was invoked with RELEASE on a selected environment.
C3_Witness ==
    /\ tool = "launch_environment"
    /\ args.properties.release_type = "RELEASE"
    /\ is_current_cluster_and_project_set
    /\ outcome = MustBe("LAUNCH")
    /\ calls = <<>>

\* The last invocation was of a tool whose type-specific field was absent.
RequiredFieldAbsent ==
    \/ /\ tool \in {"create_selective_release_plan_for_environment",
                    "create_selective_release_for_environment"}
       /\ args.properties.hotfix_resources = None
    \/ /\ tool = "create_custom_release_for_environment"
       /\ args.properties.override_build_steps = None
    \/ /\ tool = "unlock_state_of_environment"
       /\ args.properties.lock_id = None

\* C4: the hotfix-plan and hotfix tools without hotfix_resources, the custom
\* tool without override_build_steps and the unlock tool without lock_id fail
\* with the tool's own error and never reach the creation of a deployment,
\* whatever the release_type.
C4_RequiredFieldChecked ==
    RequiredFieldAbsent
        => /\ outcome.status = "error"
           /\ outcome.etype = "McpError"
           /\ calls = <<>>

\* The selective release tool was invoked with HOTFIX and no resources, on a
\* selected environment.
C4_Witness ==
    /\ tool = "create_selective_release_for_environment"
    /\ args.properties.release_type = "HOTFIX"
    /\ args.properties.hotfix_resources = None
    /\ is_current_cluster_and_project_set
    /\ outcome = ResourcesRequired

\* C5: every deployment request destroy_environment posts has
\* force_release = True, whatever the caller passed.
C5_DestroyAlwaysForced ==
    tool = "destroy_environment"
        => \A i \in DOMAIN calls :
              calls[i].api = "create_deployment_using_post"
                  => calls[i].body.force_release = "True"

\* destroy_environment posted a request for a caller who passed False.
C5_Witness ==
    /\ tool = "destroy_environment"
    /\ args.properties.force_release = "False"
    /\ calls # <<>>
    /\ calls[1].api = "create_deployment_using_post"
    /\ calls[1].body.force_release = "True"

-----------------------------------------------------------------------------
(* SpecGuard: every tool that works on the current environment, from a     *)
(* fresh session through the selection of one environment.                 *)

\* The requests a caller passes: every release type, with all of the
\* type-specific fields or with none.
GuardRequests ==
    {p \in DeploymentRequestModels :
        /\ p.force_release = None /\ p.allow_destroy = None /\ p.with_refresh = None
        /\ (p.hotfix_resources = None) = (p.override_build_steps = None)
        /\ (p.hotfix_resources = None) = (p.lock_id = None)}

OverrideDocuments ==
    {{[path |-> <<"spec", "replicas">>, value |-> "3"],
      [path |-> <<"spec", "cpu">>, value |-> "500m"]}}

PropertyPaths == {<<>>, <<"spec", "replicas">>, <<"spec", "cpu", "m">>}

InitGuard ==
    /\ ConfigResolved
    /\ SessionEmpty
    /\ caller_properties \in GuardRequests
    /\ tool = "-"
    /\ args = NoArgs
    /\ calls = <<>>
    /\ outcome = Ok
    /\ stacks = FixedStacks
    /\ clusters = AllClustersRunning
    /\ overrides = NoOverrides
    /\ module_inputs = NoModuleInputs
    /\ resources = NoResources

NextGuard ==
    \/ use_project("shop")
    \/ use_environment("prod")
    \/ get_current_environment_details
    \/ check_if_environment_is_running
    \/ get_releases_of_current_environment
    \/ get_release_details
    \/ get_release_logs_of_current_environment
    \/ get_active_releases_of_current_environment
    \/ get_active_release_logs_of_current_environment
    \/ get_latest_release_of_current_environment
    \/ get_resource_overrides
    \/ \E override_data \in OverrideDocuments : override_resource(override_data)
    \/ \E path_parts \in PropertyPaths : remove_resource_override(path_parts)
    \/ launch_environment(caller_properties)
    \/ destroy_environment(caller_properties)
    \/ create_selective_release_plan_for_environment(caller_properties)
    \/ create_selective_release_for_environment(caller_properties)
    \/ create_full_release_for_environment(caller_properties)
    \/ create_full_release_plan_for_environment(caller_properties)
    \/ create_custom_release_for_environment(caller_properties)
    \/ unlock_state_of_environment(caller_properties)
    \/ scale_up_environment(caller_properties)
    \/ scale_down_environment(caller_properties)

SpecGuard == InitGuard /\ [][NextGuard]_vars

\* The tools that need the current project and the current environment.
EnvironmentTools ==
    {"get_current_environment_details", "check_if_environment_is_running",
     "get_releases_of_current_environment", "get_release_details",
     "get_release_logs_of_current_environment",
     "get_active_releases_of_current_environment",
     "get_active_release_logs_of_current_environment",
     "get_latest_release_of_current_environment",
     "get_resource_overrides", "override_resource", "remove_resource_override"}
        \cup DeploymentTools

\* The named tool turned the request down for its release type or for a
\* missing type-specific field, and so did not delegate.
RejectedByOwnCheck(o) ==
    o.status = "error" /\ o.text \in ReleaseTypeMessages \cup {ResourcesRequired.text}

\* C2: a tool that needs the current project and environment (a named
\* deployment tool that delegates included), invoked while neither is set,
\* fails with the error "No current project or environment is set" and makes
\* no remote call.
C2_PreconditionErrorWhenNothingSet ==
    [][(current_project = NoProject /\ current_cluster = NoCluster
            /\ tool' \in EnvironmentTools /\ ~RejectedByOwnCheck(outcome'))
        => /\ outcome'.status = "error"
           /\ outcome'.text = NoCurrentProjectOrEnvironment.text
           /\ calls' = <<>>]_vars

-----------------------------------------------------------------------------
(* SpecResource: adding a resource to a project, for every module and      *)
(* every combination of arguments.                                         *)

\* The modules of the platform: `database` is declared in every way or not
\* at all, `cache` is a required input with a compatible resource or is not
\* declared.
Modules ==
    {m \in [ModuleInputNames -> ModuleInputs] :
        m["cache"].declared => m["cache"].optional = "False" /\ m["cache"].compatible # {}}

InitResource ==
    /\ ToolsInit
    /\ stacks = FixedStacks
    /\ clusters = AllClustersRunning
    /\ overrides = NoOverrides
    /\ module_inputs \in Modules
    /\ resources \in {NoResources, [NoResources EXCEPT !["shop"] = ExistingResource]}

NextResource ==
    \/ get_module_inputs("shop")
    \/ \E flavor \in Flavors, version \in Versions, content \in Contents,
          inputs \in InputsArguments :
            add_resource("shop", flavor, version, content, inputs)
    \/ get_resource_by_project("shop")
    \/ update_resource("shop", "{updated}")
    \/ delete_resource("shop")

SpecResource == InitResource /\ [][NextResource]_vars

\* add_resource was invoked without one of flavor, version and content.
MissingArgument ==
    /\ tool = "add_resource"
    /\ Falsy(args.flavor) \/ Falsy(args.version) \/ Falsy(args.content)

\* C10: add_resource without a flavor (None or empty) fails with an error
\* that says the flavor must be specified and never calls the creation
\* endpoint; without a version or without content it fails too, and in all
\* three cases the invocation makes no remote call.
C10_MissingArgumentFailsBeforeAnyCall ==
    MissingArgument
        => /\ outcome.status = "error"
           /\ calls = <<>>
           /\ Falsy(args.flavor)
                => outcome = FailedToAdd(args.project_name, "Flavor must be specified", {})

\* add_resource was invoked with flavor None and everything else given, as
\* in addResource(project="shop", type="service", name="api", flavor=None,
\* version="1.0", content={...}).
C10_Witness ==
    /\ tool = "add_resource"
    /\ args.flavor = None
    /\ args.version = "1.0"
    /\ args.content = "{spec}"
    /\ outcome = FailedToAdd(args.project_name, "Flavor must be specified", {})
    /\ calls = <<>>

\* The last invocation called the creation endpoint.
CreationCalled ==
    \E i \in DOMAIN calls : calls[i].api = "create_resources_using_post"

\* The inputs the caller's inputs argument names.
SuppliedInputs == {e.input : e \in args.inputs.entries}

\* C11: add_resource calls the creation endpoint only if every non-optional
\* module input that has a compatible resource is named in the caller's
\* inputs argument, whether that argument is None, empty or partial.
C11_RequiredInputsSupplied ==
    (tool = "add_resource" /\ CreationCalled) => required_inputs \subseteq SuppliedInputs

\* The module declares a non-optional input for which the project has no
\* compatible resource.
UnsatisfiableInput ==
    \E n \in ModuleInputNames :
        /\ module_inputs[n].declared
        /\ module_inputs[n].optional # "True"
        /\ module_inputs[n].compatible = {}

\* C12: when the module declares a non-optional input with no compatible
\* resource, add_resource fails and does not call the creation endpoint.
C12_UnsatisfiableInputFails ==
    (tool = "add_resource" /\ UnsatisfiableInput)
        => outcome.status = "error" /\ ~CreationCalled

\* The mutation endpoint of update_resource and delete_resource.
MutationApi(name) ==
    IF name = "update_resource" THEN "update_resources_using_put"
    ELSE "delete_resources_using_delete"

\* C13: update_resource and delete_resource fetch the resource, then the
\* project, then call the mutation endpoint, in that order; the mutation
\* request carries the directory and filename of the fetched resource and the
\* branch of the fetched project; the mutation endpoint is not called when
\* either read failed.
C13_ReadsBeforeMutation ==
    [][tool' \in {"update_resource", "delete_resource"}
        => LET p == args'.project_name IN
           /\ Len(calls') \in 1..3
           /\ calls'[1].api = "get_resource_by_stack_using_get"
           /\ Len(calls') >= 2
                => calls'[1].ok /\ calls'[2].api = "get_stack_using_get"
           /\ Len(calls') = 3
                => /\ calls'[2].ok
                   /\ calls'[3].api = MutationApi(tool')
                   /\ calls'[3].target = p
                   /\ calls'[3].resource.directory = resources[p].directory
                   /\ calls'[3].resource.filename = resources[p].filename
                   /\ calls'[3].resource.branch = BranchOf(p)]_vars

\* update_resource changed a resource that was in the project before the
\* session, at the location the platform reported for it.
C13_Witness ==
    /\ tool = "update_resource"
    /\ Len(calls) = 3
    /\ calls[3].ok
    /\ calls[3].resource.directory = "apps"
    /\ calls[3].resource.filename = "api.yaml"
    /\ resources["shop"].content = "{updated}"

ResourceTools == {"add_resource", "update_resource", "delete_resource"}

\* The operation the error of a resource tool names.
OperationOf(name) ==
    CASE name = "add_resource" -> "add"
      [] name = "update_resource" -> "update"
      [] name = "delete_resource" -> "delete"

\* What went wrong with a remote call, as the error of the tool reports it.
FailureCauses == {"remote call failed", "Failed to get resource", "Failed to get module inputs"}

\* C14: an invocation of add_resource, update_resource or delete_resource
\* calls each remote endpoint at most once; a remote call that fails is the
\* last call of the invocation, which ends with an error naming the resource,
\* its type and the project.
C14_NoRetry ==
    tool \in ResourceTools
        => /\ \A i, j \in DOMAIN calls : i # j => calls[i].api # calls[j].api
           /\ \A i \in DOMAIN calls :
                ~calls[i].ok
                    => /\ i = Len(calls)
                       /\ outcome.status = "error"
                       /\ outcome.text \in {FailureText(OperationOf(tool), args.project_name, c) :
                                                c \in FailureCauses}

\* delete_resource reached the deletion endpoint, which failed.
C14_Witness ==
    /\ tool = "delete_resource"
    /\ Len(calls) = 3
    /\ ~calls[3].ok
    /\ outcome.status = "error"

-----------------------------------------------------------------------------
(* SpecOverride: the override tools on the selected environment, for every *)
(* overrides document the platform may hold.                               *)

\* The leaves an overrides document may have: at depth 1, 2 and 3, an int, a
\* str and an empty object.
OverrideLeaves ==
    {[path |-> <<"replicas">>, value |-> "3"],
     [path |-> <<"spec", "replicas">>, value |-> "3"],
     [path |-> <<"spec", "cpu">>, value |-> "500m"],
     [path |-> <<"spec", "labels">>, value |-> "{}"],
     [path |-> <<"spec", "resources", "cpu">>, value |-> "500m"]}

\* The paths a caller asks to remove: None, paths to leaves and to objects,
\* paths that are not there, and paths that run through a str or an int.
RemovalPaths ==
    {<<>>, <<"replicas">>, <<"spec">>, <<"spec", "replicas">>, <<"spec", "cpu">>,
     <<"spec", "labels">>, <<"spec", "resources">>, <<"spec", "resources", "cpu">>,
     <<"spec", "cpu", "m">>, <<"spec", "replicas", "m">>, <<"cpu">>}

InitOverride ==
    /\ ToolsInit
    /\ stacks = FixedStacks
    /\ clusters = AllClustersRunning
    /\ \E d \in SUBSET OverrideLeaves : overrides = [NoOverrides EXCEPT ![1] = d]
    /\ module_inputs = NoModuleInputs
    /\ resources = NoResources

NextOverride ==
    \/ use_project("shop")
    \/ use_environment("prod")
    \/ get_resource_overrides
    \/ \E override_data \in OverrideDocuments : override_resource(override_data)
    \/ \E path_parts \in RemovalPaths : remove_resource_override(path_parts)

SpecOverride == InitOverride /\ [][NextOverride]_vars

\* Document d has something at `path`: a leaf or an object.
PathExists(d, path) == path # <<>> /\ \E e \in d : IsPrefix(path, e.path)

\* d with what it has at `path` removed and the objects this emptied pruned:
\* the leaves of d that are not under `path`.
Remaining(d, path) == {e \in d : ~IsPrefix(path, e.path)}

\* A step of remove_resource_override for a path the overrides of the
\* current environment have, the overrides having been read.
RemovesExistingPath ==
    /\ tool' = "remove_resource_override"
    /\ is_current_cluster_and_project_set
    /\ PathExists(overrides[current_cluster.id], args'.property_path)
    /\ calls'[1].ok

\* The calls of the step that post overrides.
PostsOf(cs) == {i \in DOMAIN cs : cs[i].api = "post_resource_override_object_using_post"}

\* C15: removing a path that exists posts the original document without what
\* was at that path and without the objects that became empty, every other
\* leaf unchanged (when something is left).
C15_RemovalPrunesExactly ==
    [][(RemovesExistingPath
            /\ Remaining(overrides[current_cluster.id], args'.property_path) # {})
        => /\ PostsOf(calls') = {2}
           /\ calls'[2].overrides =
                Remaining(overrides[current_cluster.id], args'.property_path)
           /\ calls'[2].ok
                => overrides'[current_cluster.id] =
                        Remaining(overrides[current_cluster.id], args'.property_path)]_vars

\* "spec.replicas" was removed from {"spec": {"replicas": 3, "cpu": "500m"}}
\* and {"spec": {"cpu": "500m"}} was posted.
C15_Witness ==
    /\ tool = "remove_resource_override"
    /\ args.property_path = <<"spec", "replicas">>
    /\ Len(calls) = 2
    /\ calls[2].ok
    /\ calls[2].overrides = {[path |-> <<"spec", "cpu">>, value |-> "500m"]}
    /\ overrides[1] = {[path |-> <<"spec", "cpu">>, value |-> "500m"]}

\* C16: when removing a path leaves nothing after pruning, whatever the depth
\* of the path, exactly one request is posted and its overrides is null; no
\* empty or partly pruned document is posted.
C16_EmptyResultDeletesAll ==
    [][(RemovesExistingPath
            /\ Remaining(overrides[current_cluster.id], args'.property_path) = {})
        => /\ PostsOf(calls') = {2}
           /\ calls'[2].overrides = NullDocument]_vars

\* "spec.resources.cpu" was removed from {"spec": {"resources": {"cpu":
\* "500m"}}}: the request posted had overrides null.
C16_Witness ==
    /\ tool = "remove_resource_override"
    /\ args.property_path = <<"spec", "resources", "cpu">>
    /\ Len(calls) = 2
    /\ calls[2].ok
    /\ calls[2].overrides = NullDocument
    /\ outcome.text = "Successfully removed all overrides because the overrides became empty"
    /\ overrides[1] = EmptyDocument

\* A step of remove_resource_override with nothing to remove, the overrides
\* having been read: the resource has no overrides, or the property path is
\* not in the overrides document.
RemovesNothing ==
    /\ tool' = "remove_resource_override"
    /\ is_current_cluster_and_project_set
    /\ calls'[1].ok
    /\ \/ IsEmptyDocument(overrides[current_cluster.id])
       \/ /\ args'.property_path # <<>>
          /\ ~PathExists(overrides[current_cluster.id], args'.property_path)

\* The two messages that report that there was nothing to remove.
NotFoundMessages == {"No overrides found", "Property path not found in overrides"}

\* C30: when the resource has no overrides, or the property path is not in
\* the overrides document at some segment, remove_resource_override returns
\* a not-found message, posts no overrides and leaves the overrides held by
\* the platform unchanged.
C30_NothingToRemove ==
    [][RemovesNothing
        => /\ outcome'.status = "ok"
           /\ outcome'.text \in NotFoundMessages
           /\ PostsOf(calls') = {}
           /\ overrides' = overrides]_vars

\* The part of C30 on remote effects: with nothing to remove, whether a
\* message is returned or an error raised, the only call is the read and the
\* overrides held by the platform are unchanged.
C30_NothingPosted ==
    [][RemovesNothing
        => /\ Len(calls') = 1
           /\ PostsOf(calls') = {}
           /\ overrides' = overrides]_vars

\* "spec.replicas.m" was asked to be removed from a document whose
\* spec.replicas is 3: an error was raised, after the read alone.
C30_RaisedOnScalar ==
    /\ tool = "remove_resource_override"
    /\ args.property_path = <<"spec", "replicas", "m">>
    /\ [path |-> <<"spec", "replicas">>, value |-> "3"] \in overrides[1]
    /\ Len(calls) = 1
    /\ calls[1].ok
    /\ outcome.status = "error"

-----------------------------------------------------------------------------
(* The model converters on their own.                                      *)

InitConvert ==
    /\ ToolsInit
    /\ stacks = FixedStacks
    /\ clusters = AllClustersRunning
    /\ overrides = NoOverrides
    /\ module_inputs = NoModuleInputs
    /\ resources = NoResources

NextConvert ==
    \/ \E swagger_environment \in SwaggerEnvironments :
          convert_swagger_environment_to_pydantic(swagger_environment)
    \/ \E pydantic_instance \in PydanticInstances :
          pydantic_instance_to_swagger_instance(pydantic_instance)

SpecConvert == InitConvert /\ [][NextConvert]_vars

\* The zero value of each scalar type.
ZeroValue(annotation) ==
    CASE annotation = "str" -> ""
      [] annotation = "bool" -> "False"
      [] annotation = "int" -> "0"
      [] annotation = "float" -> "0.0"
      [] OTHER -> "zero value"

\* C17: converting a wire environment always succeeds and gives every
\* declared field whose wire value is absent or null a value that is not
\* null: the zero value of the field's type.
C17_NoNullField ==
    tool = "_convert_swagger_environment_to_pydantic" =>
        /\ outcome.status = "ok"
        /\ \A field_name \in ModelFields :
              args.instance[field_name] \in {NoAttribute, None} =>
                  /\ outcome.returned[field_name] # None
                  /\ AnnotationOf(field_name) # "other" =>
                        outcome.returned[field_name] = ZeroValue(AnnotationOf(field_name))

\* C18: the wire constructor receives one keyword for each field that was
\* set, named by the attribute the alias map declares for the field's alias
\* and carrying the field's value, and no keyword for an unset field.
C18_ExactlySetFields ==
    tool = "pydantic_instance_to_swagger_instance" =>
        /\ outcome.status = "ok"
        /\ \A a \in SwaggerTypes :
              IF args.instance[AttributeMap[a]] # Unset
              THEN [attribute |-> a, value |-> args.instance[AttributeMap[a]]]
                      \in outcome.returned
              ELSE \A k \in outcome.returned : k.attribute # a
        /\ \A k \in outcome.returned : k.attribute \in SwaggerTypes
        /\ Cardinality(outcome.returned) =
              Cardinality({a \in SwaggerTypes : args.instance[AttributeMap[a]] # Unset})

\* The reserved-word field is set and the description is not.
C18_Witness ==
    /\ tool = "pydantic_instance_to_swagger_instance"
    /\ args.instance["global"] = "a"
    /\ args.instance["description"] = Unset
    /\ [attribute |-> "_global", value |-> "a"] \in outcome.returned
    /\ Cardinality(outcome.returned) < Cardinality(SwaggerTypes)

-----------------------------------------------------------------------------
(* Claims about refreshing the cached project (SpecVars).                  *)

\* C19: refresh_current_project with no current project fails with the
\* no-current-project error and makes no remote call; with a current project
\* it fetches the project by the cached project's name, once, and replaces
\* the cache with what the platform holds; when that fetch fails the cached
\* project is unchanged.
C19_RefreshReplacesCache ==
    [][tool' = "refresh_current_project" =>
         IF ~IsSet(current_project)
         THEN /\ calls' = <<>>
              /\ outcome'.status = "error"
              /\ outcome'.text = "No current project is set"
              /\ current_project' = current_project
         ELSE /\ Len(calls') = 1
              /\ calls'[1].api = "get_stack_using_get"
              /\ calls'[1].target = current_project.name
              /\ IF calls'[1].ok
                 THEN /\ outcome'.status = "ok"
                      /\ current_project' =
                            [name |-> current_project.name,
                             cluster_variables_meta |-> stacks[current_project.name]]
                 ELSE /\ outcome'.status = "error"
                      /\ current_project' = current_project]_vars

\* A refresh succeeded and the cache holds a variable of the platform.
C19_Witness ==
    /\ tool = "refresh_current_project"
    /\ outcome.status = "ok"
    /\ Len(calls) = 1
    /\ current_project.name = "shop"
    /\ current_project.cluster_variables_meta = stacks["shop"]
    /\ \E v \in VarNames : stacks["shop"][v] # Absent

-----------------------------------------------------------------------------
(* Claims about the merge of the lifecycle state (SpecSession).            *)

\* C20: the state get_current_environment_details returns is the state of
\* the metadata entry whose cluster id is the current environment's id; when
\* the metadata has no entry with that id it is the zero value the listing's
\* own empty state converts to, never the state of another environment's
\* entry.
C20_StateOfMatchingEntry ==
    (tool = "get_current_environment_details" /\ outcome.status = "ok") =>
        /\ outcome.returned.id = current_cluster.id
        /\ IF clusters[current_cluster.id].meta # None
           THEN outcome.returned.cluster_state = clusters[current_cluster.id].meta
           ELSE outcome.returned.cluster_state = ""

\* The current environment has no metadata entry while another environment
\* of the project has one, and the details carry the zero value.
C20_Witness ==
    /\ tool = "get_current_environment_details"
    /\ outcome.status = "ok"
    /\ clusters[current_cluster.id].meta = None
    /\ \E other \in ClusterIds :
          /\ other # current_cluster.id
          /\ ClusterProject(other) = current_project.name
          /\ clusters[other].meta # None
    /\ outcome.returned.cluster_state = ""

-----------------------------------------------------------------------------
(* SpecStartup: the process from its start, for every environment and      *)
(* credentials file; tools are invoked once the server runs.               *)

NextStartup ==
    \/ main
    \/ server = Serving /\ \E name \in ProjectNames : use_project(name)
    \/ server = Serving /\ refresh_current_project

SpecStartup == InitConfig /\ [][NextStartup]_vars

\* C21: the server starts only in the step in which the one identity call
\* succeeded; a start-up whose identity call did not succeed ends with exit
\* status 1, and a process that exited never serves.
C21_ServesOnlyAfterLogin ==
    [][/\ (server # Serving /\ server' = Serving) =>
             /\ tool' = "main"
             /\ Len(calls') = 1
             /\ calls'[1].api = "me"
             /\ calls'[1].ok
       /\ (server = Starting /\ tool' = "main"
             /\ ~(\E i \in 1..Len(calls') : calls'[i].api = "me" /\ calls'[i].ok)) =>
             server' = Exited1
       /\ server = Exited1 => server' = Exited1]_vars

\* The identity call failed and the process exited.
C21_Witness ==
    /\ tool = "main"
    /\ Len(calls) = 1
    /\ calls[1].api = "me"
    /\ ~calls[1].ok
    /\ server = Exited1

-----------------------------------------------------------------------------
(* Claims about the errors of the tools (Spec).                            *)

\* C22: every invocation that fails, fails with the one structured error
\* type, McpError.
C22_SingleErrorType ==
    (tool # "-" /\ outcome.status = "error") => outcome.etype = "McpError"

-----------------------------------------------------------------------------
(* SpecRace: two use_project invocations for different projects that        *)
(* overlap, and a reader of the cached project, over a session that holds   *)
(* no project or an earlier one.                                            *)

InitRace ==
    /\ ConfigResolved
    /\ NothingInvoked
    /\ stacks \in [Projects -> [VarNames -> {Absent} \cup VarValues]]
    /\ current_project \in {NoProject} \cup {Stack(p) : p \in Projects}
    /\ current_cluster = NoCluster
    /\ invocations = NoneInFlight
    /\ clusters = AllClustersRunning
    /\ overrides = NoOverrides
    /\ module_inputs = NoModuleInputs
    /\ resources = NoResources

NextRace ==
    \/ \E t \in Threads, name \in ProjectNames : use_project_fetch(t, name)
    \/ \E t \in Threads : use_project_write(t)
    \/ get_secrets_and_vars

SpecRace == InitRace /\ [][NextRace]_vars

\* Both invocations have ended.
BothCompleted ==
    \A t \in Threads : invocations.thread[t].pc \in {"done", "failed"}

\* C23: once two overlapping use_project invocations for different projects
\* have ended, the store holds the project fetched by the invocation that
\* wrote last; no write empties the store, and at every moment the store
\* holds the earlier project or the whole Stack one of the two fetched.
C23_LastWriteWins ==
    /\ []((BothCompleted /\ invocations.last_write # 0) =>
            /\ current_project = invocations.thread[invocations.last_write].project
            /\ current_project # NoProject
            /\ current_project = Stack(invocations.thread[invocations.last_write].project_name))
    /\ [][\/ current_project' = current_project
          \/ \E t \in Threads :
                /\ invocations.thread[t].pc = "fetched"
                /\ current_project' = Stack(invocations.thread[t].project_name)]_vars

\* Both invocations wrote, the second to fetch wrote first, and the store
\* holds what the other one fetched.
C23_Witness ==
    /\ BothCompleted
    /\ \A t \in Threads : invocations.thread[t].pc = "done"
    /\ calls[1].target = invocations.thread[invocations.last_write].project_name
    /\ Len(calls) = 2
    /\ current_project.name = invocations.thread[invocations.last_write].project_name
    /\ stacks["shop"] # stacks["blog"]

-----------------------------------------------------------------------------
(* Claims about the unlock request (SpecDeploy).                           *)

\* C24: every deployment request unlock_state_of_environment posts carries
\* the lock id the caller passed in properties.lock_id.
C24_UnlockCarriesLockId ==
    tool = "unlock_state_of_environment"
        => \A i \in DOMAIN calls :
              calls[i].api = "create_deployment_using_post"
                  => calls[i].body.lock_id = args.properties.lock_id

-----------------------------------------------------------------------------
(* SpecRegistry: the tools on an existing resource, with either of the two *)
(* functions that are decorated as the tool update_resource.               *)

NextRegistry ==
    \/ get_resource_by_project("shop")
    \/ update_resource("shop", "{updated}")
    \/ project_tools_update_resource("shop", "{updated}")
    \/ delete_resource("shop")

SpecRegistry == InitResource /\ [][NextRegistry]_vars

\* C25: no invocation of the tool update_resource calls the creation
\* endpoint, whichever of the two functions serves it.
C25_UpdateNeverCreates ==
    tool = "update_resource" =>
        \A i \in DOMAIN calls : calls[i].api # "create_resources_using_post"

-----------------------------------------------------------------------------
(* Claims about the frame of the session tools (SpecSession).              *)

\* C26: a use_project whose remote fetch fails, for an unknown project or a
\* failing call, ends with the error "Failed to set project" and leaves the
\* current project and the current environment as they were.
C26_FailedUseProjectKeepsSession ==
    [][(tool' = "use_project" /\ ~calls'[1].ok) =>
          /\ outcome'.status = "error"
          /\ outcome'.text = "Failed to set project"
          /\ current_project' = current_project
          /\ current_cluster' = current_cluster]_vars

\* use_project failed over a session that holds a project and an environment.
C26_Witness ==
    /\ tool = "use_project"
    /\ outcome.status = "error"
    /\ args.project_name = "ghost"
    /\ current_project = Stack("shop")
    /\ current_cluster # NoCluster

\* C27: use_environment with no current project fails without a remote
\* call; when the listing answers and no environment of the current project
\* has the given name it fails with the not-found error; in both cases the
\* current environment is unchanged.  When it succeeds the current
\* environment is one the platform lists for the current project, with the
\* given name.
C27_UseEnvironmentSelectsByName ==
    [][tool' = "use_environment" =>
          /\ ~IsSet(current_project) =>
                /\ calls' = <<>>
                /\ outcome'.status = "error"
                /\ current_cluster' = current_cluster
          /\ (/\ IsSet(current_project)
              /\ Len(calls') = 1 /\ calls'[1].ok
              /\ \A id \in ListedIds(current_project.name) :
                    ClusterName(id) # args'.environment_name) =>
                /\ outcome'.status = "error"
                /\ outcome'.text = "Environment not found in project"
                /\ current_cluster' = current_cluster
          /\ outcome'.status = "error" => current_cluster' = current_cluster
          /\ outcome'.status = "ok" =>
                /\ current_cluster'.id \in ListedIds(current_project.name)
                /\ current_cluster'.name = args'.environment_name
                /\ ClusterName(current_cluster'.id) = args'.environment_name]_vars

\* An environment was selected earlier and a name no environment of the
\* project has was then asked for.
C27_Witness ==
    /\ tool = "use_environment"
    /\ args.environment_name = "qa"
    /\ outcome.text = "Environment not found in project"
    /\ current_cluster # NoCluster
    /\ current_cluster.id \in ListedIds(current_project.name)

-----------------------------------------------------------------------------
(* Claims about the session store under a platform that changes (Spec).    *)

-----------------------------------------------------------------------------
(* SpecFrame: every tool, over one project and one environment.            *)

FrameRequests ==
    {p \in GuardRequests : p.release_type = "UNLOCK_STATE" /\ p.lock_id # None}

InitFrame ==
    /\ ConfigResolved
    /\ SessionEmpty
    /\ caller_properties \in FrameRequests
    /\ tool = "-"
    /\ args = NoArgs
    /\ calls = <<>>
    /\ outcome = Ok
    /\ stacks = FixedStacks
    /\ clusters = AllClustersRunning
    /\ overrides = NoOverrides
    /\ module_inputs \in {m \in Modules : \A n \in ModuleInputNames : ~m[n].declared}
    /\ resources = NoResources

NextFrame ==
    \/ get_all_projects
    \/ use_project("shop")
    \/ refresh_current_project
    \/ get_secrets_and_vars
    \/ create_variables({"API_KEY"}, "v1")
    \/ update_variables({"API_KEY"}, "v1")
    \/ delete_variables({"API_KEY"})
    \/ get_all_environments
    \/ use_environment("prod")
    \/ get_current_environment_details
    \/ check_if_environment_is_running
    \/ get_releases_of_current_environment
    \/ get_release_details
    \/ get_release_logs_of_current_environment
    \/ get_active_releases_of_current_environment
    \/ get_active_release_logs_of_current_environment
    \/ get_latest_release_of_current_environment
    \/ get_resource_overrides
    \/ \E override_data \in OverrideDocuments : override_resource(override_data)
    \/ remove_resource_override(<<"spec", "replicas">>)
    \/ launch_environment(caller_properties)
    \/ unlock_state_of_environment(caller_properties)
    \/ get_module_inputs("shop")
    \/ add_resource("shop", "default", "1.0", "{spec}", NoInputs)
    \/ get_resource_by_project("shop")
    \/ update_resource("shop", "{updated}")
    \/ delete_resource("shop")
    \/ create_release_stream

SpecFrame == InitFrame /\ [][NextFrame]_vars

\* The tools the session store is written by.
SessionWriters ==
    {"use_project", "refresh_current_project"} \cup VariableTools \cup
    {"use_environment", "get_current_environment_details"}

\* The query tools that begin with get_current_environment_details().
RefreshingQueries ==
    {"get_active_releases_of_current_environment",
     "get_active_release_logs_of_current_environment",
     "check_if_environment_is_running"}

\* C29, as stated: an invocation of any tool other than use_project,
\* refresh_current_project, the variable mutation tools, use_environment and
\* get_current_environment_details leaves the current project and the
\* current environment exactly as they were.
C29_OnlyWritersChangeSession ==
    [][tool' \notin SessionWriters =>
          /\ current_project' = current_project
          /\ current_cluster' = current_cluster]_vars

\* C29, amended: the three query tools that begin with
\* get_current_environment_details() may replace the stored environment by
\* refreshed data of the same environment, also when the invocation fails
\* afterwards, and leave the project alone; every other tool outside the
\* writers leaves both exactly as they were.
C29_OnlyWritersAndRefreshingQueries ==
    [][/\ tool' \notin (SessionWriters \cup RefreshingQueries) =>
             /\ current_project' = current_project
             /\ current_cluster' = current_cluster
       /\ tool' \in RefreshingQueries =>
             /\ current_project' = current_project
             /\ current_cluster'.id = current_cluster.id
             /\ current_cluster'.name = current_cluster.name]_vars

\* A resource was added while a project and an environment were selected.
C29_Witness ==
    /\ tool = "add_resource"
    /\ outcome.status = "ok"
    /\ current_project = Stack("shop")
    /\ current_cluster.id = 1
    /\ resources["shop"] # NoResourceRequest

====
